---------------------------- MODULE Spec2Model ----------------------------
(***************************************************************************)
(* A model of the minicris game: the Game state machine (SPLASH ->         *)
(* TRANSITIONING -> GAMEPLAY), the asynchronous level and character loads, *)
(* the sparse tile level (defaults, overrides, layers, objects) with its   *)
(* walkability predicate, and the per-frame character controller.          *)
(*                                                                         *)
(* World coordinates are fixed-point integers in thousandths of a world    *)
(* unit (Milli); frame deltas are in milliseconds; joystick magnitudes are *)
(* in percent of the joystick radius.  Strings the code inspects with      *)
(* includes/startsWith/split are sequences of one-character strings.       *)
(***************************************************************************)
EXTENDS Integers, Sequences, FiniteSets, TLC

VARIABLES
    state,          \* Game.state
    inputEnabled,   \* Game.inputManager.enabled
    isTouching,     \* InputManager.isTouching
    inputVector,    \* InputManager.inputVector, <<x, y>> in percent
    joystickShown,  \* joystickBase.style.display is 'block'
    viewSize,       \* CameraManager.viewSize
    offset,         \* CameraManager.offset
    lmPc,           \* progress of LevelManager.loadLevel
    fetchOutcome,   \* how the level fetch settled: "none", "failed", "ok"
    levelData,      \* LevelManager.levelData
    pending,        \* GLB model loads started by preloadAssets, not settled
    models,         \* keys of LevelManager.models
    tiles,          \* tiles added to the scene by spawnTile, in order
    sceneClears,    \* number of scene.clear() calls made by Game.loadLevel
    character,      \* Game.character is not null
    chPc,           \* progress of Character.load
    mesh,           \* Character.mesh is not null
    mixer,          \* Character.mixer is not null
    actions,        \* names registered in Character.actions
    activeAction,   \* name of Character.activeAction, or NoAction
    position,       \* Character.position, <<x, y, z>> in Milli
    idleTimer,      \* Character.idleTimer in milliseconds
    oneShot,        \* the action a playOneShotAnimation promise waits for
    lastFrame,      \* what the last animate() call did with the character
    itPc,           \* progress of ItemManager.loadItems
    itQueue,        \* loadItems: tileSize and the objects not handled yet
    modelCache,     \* keys of ItemManager.modelCache
    items,          \* ItemManager.items
    sceneItems,     \* ids of the item meshes in the scene
    collects,       \* ids passed to collectItem, in order
    itemPlayer,     \* playerPosition of the last ItemManager.update
    enemy,          \* the fields of the Enemy
    gameOvers,      \* number of game.gameOver() calls made by the enemy
    ui              \* the overlays: the element's classes and opacity, the
                    \* pending hide timers and the last call

vars == <<state, inputEnabled, isTouching, inputVector, joystickShown,
          viewSize, offset,
          lmPc, fetchOutcome, levelData, pending, models, tiles, sceneClears,
          character, chPc, mesh, mixer, actions, activeAction, position,
          idleTimer, oneShot, lastFrame,
          itPc, itQueue, modelCache, items, sceneItems, collects, itemPlayer,
          enemy, gameOvers, ui>>

gameVars  == <<state, inputEnabled, viewSize, offset, sceneClears>>
inputVars == <<isTouching, inputVector, joystickShown>>
levelVars == <<lmPc, fetchOutcome, levelData, pending, models, tiles>>
charVars  == <<character, chPc, mesh, mixer, actions, activeAction,
               position, idleTimer, oneShot>>
itemVars  == <<itPc, itQueue, modelCache, items, sceneItems, collects,
               itemPlayer>>
enemyVars == <<enemy, gameOvers>>
uiVars    == <<ui>>

\* null (levelData, a find() without a match)
Null == [null |-> TRUE]

\* no AnimationAction (Character.activeAction === null)
NoAction == "none"

\* undefined, where the code expects a string
Undefined == <<"undefined">>

\* null where a THREE.Vector3 is expected
NoPos == <<>>

\* The fields of an Enemy after its constructor.  rotation is kept as the
\* forward vector (0, 0, 1).applyAxisAngle(y, rotation) = <<sin, cos>> in
\* thousandths; positions are in Milli, speeds in Milli per second, timers
\* in ms; pc is the progress of load().
NewEnemy ==
    [pc               |-> "idle",
     mesh             |-> FALSE,
     mixer            |-> FALSE,
     actions          |-> {},
     activeAction     |-> NoAction,
     position         |-> <<0, 0, 0>>,
     rotation         |-> <<0, 1000>>,
     state            |-> "PATROL",
     subState         |-> "WALKING",
     movementSpeed    |-> 0,
     startPosition    |-> NoPos,
     targetPosition   |-> NoPos,
     lastSeenPosition |-> NoPos,
     stateTimer       |-> 0,
     waitTimer        |-> 0]

(***************************************************************************)
(* Units and bounds                                                        *)
(***************************************************************************)
Milli == 10 * 10 * 10

\* The player is followed inside the box |x|, |z| <= PosLimit (Milli).
PosLimit == 2000

\* Frames are taken while the idle timer stays at or below this (ms).
MaxIdleTimer == 500

\* Frame times returned by clock.getDelta(), in milliseconds.
Deltas == {250, 500}

\* Horizontal and vertical drag distances of the joystick, in pixels.
DragPixels == {-80, 0, 12}

(***************************************************************************)
(* Strings                                                                 *)
(***************************************************************************)
S_floor      == <<"f","l","o","o","r">>
S_floorGrass == <<"f","l","o","o","r","-","g","r","a","s","s">>
S_wall       == <<"w","a","l","l">>
S_tree       == <<"t","r","e","e">>
S_primitive  == <<"p","r","i","m","i","t","i","v","e",":">>
S_box        == <<"b","o","x">>
S_primBox    == S_primitive \o S_box
S_primBall   == S_primitive \o <<"b","a","l","l">>

\* String.prototype.includes
Includes(s, sub) ==
    \E i \in 0..(Len(s) - Len(sub)) : SubSeq(s, i + 1, i + Len(sub)) = sub

\* String.prototype.startsWith
StartsWith(s, pre) ==
    Len(s) >= Len(pre) /\ SubSeq(s, 1, Len(pre)) = pre

\* s.split(':')[1]: the text between the first ':' and the next one (or the
\* end); Undefined when s has no ':'.
SplitColon1(s) ==
    LET colons == {i \in 1..Len(s) : s[i] = ":"}
    IN  IF colons = {} THEN Undefined
        ELSE LET first == CHOOSE i \in colons : \A j \in colons : i <= j
                 later == {j \in colons : j > first}
                 stop  == IF later = {} THEN Len(s) + 1
                          ELSE CHOOSE j \in later : \A k \in later : j <= k
             IN  SubSeq(s, first + 1, stop - 1)

\* Math.round(a / b) for b > 0: the nearest integer, halves rounded up.
Round(a, b) == (2 * a + b) \div (2 * b)

\* Array.prototype.find with a predicate on (x, y): the first matching
\* element, or Null.
FindAt(cells, gx, gy) ==
    LET hits == {i \in 1..Len(cells) : cells[i].x = gx /\ cells[i].y = gy}
    IN  IF hits = {} THEN Null
        ELSE cells[CHOOSE i \in hits : \A j \in hits : i <= j]

(***************************************************************************)
(* LevelManager: pure parts                                                *)
(***************************************************************************)
\* Height (size.y after scaling, in Milli) measured for a loaded GLB model.
ModelHeights == {250}

\* preloadAssets: the distinct tileset values that are not primitives; one
\* loader.loadAsync is started for each.
PreloadKeys(tilesets) ==
    {tilesets[t] : t \in DOMAIN tilesets} \ 
        {k \in {tilesets[t] : t \in DOMAIN tilesets} : StartsWith(k, S_primitive)}

\* spawnTile that centres every box primitive above the cell's height.
MutSpawnTile_FloorAbove(tileId, key, x, y, z, size, rot, mdl) ==
    IF StartsWith(key, S_primitive)
    THEN IF SplitColon1(key) = S_box
         THEN <<[tile |-> tileId, key |-> key, rot |-> rot, y |-> y,
                 size |-> size, pos |-> <<x, y + size \div 2, z>>]>>
         ELSE <<>>
    ELSE IF key \in DOMAIN mdl
         THEN <<[tile |-> tileId, key |-> key, rot |-> rot, y |-> y,
                 size |-> size, pos |-> <<x, y, z>>]>>
         ELSE <<>>

\* spawnTile: the objects added to the scene (none or one).  mdl maps the
\* keys of this.models to the y size stored in this.modelSizes.  An object
\* records the height y and the tile size it was spawned for.
SpawnTile(tileId, key, x, y, z, size, rot, mdl) ==
    IF StartsWith(key, S_primitive)
    THEN IF SplitColon1(key) = S_box
         THEN LET yOffset == IF Includes(tileId, S_floor)
                             THEN -(size \div 2) ELSE size \div 2
              IN  <<[tile |-> tileId, key |-> key, rot |-> rot, y |-> y,
                     size |-> size, pos |-> <<x, y + yOffset, z>>]>>
         ELSE <<>>
    ELSE IF key \in DOMAIN mdl
         THEN LET yOffset == IF Includes(tileId, S_floor) THEN -mdl[key] ELSE 0
              IN  <<[tile |-> tileId, key |-> key, rot |-> rot, y |-> y,
                     size |-> size, pos |-> <<x, y + yOffset, z>>]>>
         ELSE <<>>

\* Records which part of the level description an object was spawned for.
Tagged(objs, src, gx, gy) ==
    [i \in DOMAIN objs |-> [obj |-> objs[i], src |-> src, gx |-> gx, gy |-> gy]]

\* GroundCell that spawns the default ground under an override as well.
MutGroundCell_DefaultUnderOverride(ld, mdl, gx, gy) ==
    LET tileSize == ld.meta.tileSize * Milli
        override == FindAt(ld.overrides, gx, gy)
        ground   == ld.defaults.ground
        x        == gx * tileSize
        z        == gy * tileSize
        base     == IF ground.tile \in DOMAIN ld.tilesets
                    THEN Tagged(SpawnTile(ground.tile, ld.tilesets[ground.tile],
                                          x, ground.h * Milli, z, tileSize,
                                          ground.rot, mdl),
                                "ground", gx, gy)
                    ELSE <<>>
    IN  IF override # Null /\ override.tile \in DOMAIN ld.tilesets
        THEN base \o Tagged(SpawnTile(override.tile, ld.tilesets[override.tile],
                                      x, override.h * Milli, z, tileSize,
                                      override.rot, mdl),
                            "override", gx, gy)
        ELSE base

\* buildLevel, step 1, for one grid cell: the override if there is one,
\* the default ground otherwise; nothing when the tileset has no entry.
GroundCell(ld, mdl, gx, gy) ==
    LET tileSize == ld.meta.tileSize * Milli
        override == FindAt(ld.overrides, gx, gy)
        ground   == ld.defaults.ground
        x        == gx * tileSize
        z        == gy * tileSize
    IN  IF override # Null
        THEN IF override.tile \in DOMAIN ld.tilesets
             THEN Tagged(SpawnTile(override.tile, ld.tilesets[override.tile],
                                   x, override.h * Milli, z, tileSize,
                                   override.rot, mdl),
                         "override", gx, gy)
             ELSE <<>>
        ELSE IF ground.tile \in DOMAIN ld.tilesets
             THEN Tagged(SpawnTile(ground.tile, ld.tilesets[ground.tile],
                                   x, ground.h * Milli, z, tileSize,
                                   ground.rot, mdl),
                         "ground", gx, gy)
             ELSE <<>>

\* buildLevel, step 1: x_grid is the outer loop, y_grid the inner one; k
\* counts the cells still to visit.
RECURSIVE GroundLoop(_, _, _)
GroundLoop(ld, mdl, k) ==
    LET w == ld.meta.width
        h == ld.meta.height
        n == w * h - k
    IN  IF k <= 0 THEN <<>>
        ELSE GroundCell(ld, mdl, n \div h, n % h) \o GroundLoop(ld, mdl, k - 1)

\* buildLevel, step 2, for one cell of one layer.
LayerCell(ld, mdl, layer, cell) ==
    LET tileSize == ld.meta.tileSize * Milli
        x == cell.x * tileSize
        z == cell.y * tileSize
        y == (cell.h + layer.z) * Milli
    IN  IF cell.tile \in DOMAIN ld.tilesets
        THEN Tagged(SpawnTile(cell.tile, ld.tilesets[cell.tile], x, y, z,
                              tileSize, cell.rot, mdl),
                    "layer", cell.x, cell.y)
        ELSE <<>>

RECURSIVE CellLoop(_, _, _, _)
CellLoop(ld, mdl, layer, i) ==
    IF i > Len(layer.cells) THEN <<>>
    ELSE LayerCell(ld, mdl, layer, layer.cells[i]) \o CellLoop(ld, mdl, layer, i + 1)

RECURSIVE LayerLoop(_, _, _)
LayerLoop(ld, mdl, i) ==
    IF i > Len(ld.layers) THEN <<>>
    ELSE CellLoop(ld, mdl, ld.layers[i], 1) \o LayerLoop(ld, mdl, i + 1)

\* buildLevel: everything it adds to the scene, in order.
BuildLevel(ld, mdl) ==
    IF ld = Null THEN <<>>
    ELSE GroundLoop(ld, mdl, ld.meta.width * ld.meta.height) \o LayerLoop(ld, mdl, 1)

\* isWalkable that also wants a visual of the cell in the scene.
MutIsWalkable_NeedsVisual(ld, x, z) ==
    IF ld = Null THEN TRUE
    ELSE LET tileSize == ld.meta.tileSize * Milli
             gridX    == Round(x, tileSize)
             gridY    == Round(z, tileSize)
             override == FindAt(ld.overrides, gridX, gridY)
         IN  IF gridX < 0 \/ gridX >= ld.meta.width
                \/ gridY < 0 \/ gridY >= ld.meta.height
             THEN FALSE
             ELSE IF override # Null /\ ~Includes(override.tile, S_floor)
             THEN FALSE
             ELSE IF override = Null /\ ~Includes(ld.defaults.ground.tile, S_floor)
             THEN FALSE
             ELSE /\ \A i \in 1..Len(ld.layers) :
                        LET cell == FindAt(ld.layers[i].cells, gridX, gridY)
                        IN  cell # Null => Includes(cell.tile, S_floor)
                  /\ \E i \in 1..Len(tiles) :
                        tiles[i].gx = gridX /\ tiles[i].gy = gridY

\* isWalkable(x, z), x and z in Milli.
IsWalkable(ld, x, z) ==
    IF ld = Null THEN TRUE
    ELSE LET tileSize == ld.meta.tileSize * Milli
             gridX    == Round(x, tileSize)
             gridY    == Round(z, tileSize)
             override == FindAt(ld.overrides, gridX, gridY)
         IN  IF gridX < 0 \/ gridX >= ld.meta.width
                \/ gridY < 0 \/ gridY >= ld.meta.height
             THEN FALSE
             ELSE IF override # Null /\ ~Includes(override.tile, S_floor)
             THEN FALSE
             ELSE IF override = Null /\ ~Includes(ld.defaults.ground.tile, S_floor)
             THEN FALSE
             ELSE \A i \in 1..Len(ld.layers) :
                      LET cell == FindAt(ld.layers[i].cells, gridX, gridY)
                      IN  cell # Null => Includes(cell.tile, S_floor)

\* getPlayerSpawn(): <<x, y, z>> in Milli.
GetPlayerSpawn(ld) ==
    IF ld = Null THEN <<0, 0, 0>>
    ELSE LET spawns == {i \in 1..Len(ld.objects) : ld.objects[i].type = "spawn"}
         IN  IF spawns = {} THEN <<0, 0, 0>>
             ELSE LET spawnObj == ld.objects[CHOOSE i \in spawns : \A j \in spawns : i <= j]
                      tileSize == ld.meta.tileSize * Milli
                  IN  <<spawnObj.x * tileSize, spawnObj.h * Milli, spawnObj.y * tileSize>>

(***************************************************************************)
(* Level descriptions served for /assets/levels/level1.json                *)
(***************************************************************************)
Cell(x, y, tile) == [x |-> x, y |-> y, tile |-> tile, rot |-> 0, h |-> 0]

Obj(id, type, x, y, h) == [id |-> id, type |-> type, x |-> x, y |-> y, h |-> h]

\* 2 x 2 tiles of size 1: primitive floor, a wall override, a GLB tree in
\* the obstacle layer, the spawn object listed after an item.
LevelA ==
    [meta      |-> [tileSize |-> 1, width |-> 2, height |-> 2],
     tilesets  |-> (S_floor :> S_primBox) @@ (S_wall :> S_primBox)
                       @@ (S_tree :> S_tree),
     defaults  |-> [ground |-> [tile |-> S_floor, rot |-> 0, h |-> 0]],
     overrides |-> <<Cell(1, 1, S_wall)>>,
     layers    |-> <<[name |-> "obstacles", z |-> 0,
                      cells |-> <<Cell(0, 1, S_tree)>>]>>,
     objects   |-> <<Obj("beer1", "item", 1, 0, 0),
                     Obj("start", "spawn", 1, 0, 0),
                     Obj("start2", "spawn", 0, 0, 1)>>]

\* 2 x 1 tiles of size 2: GLB floor, no override, no spawn object.
LevelB ==
    [meta      |-> [tileSize |-> 2, width |-> 2, height |-> 1],
     tilesets  |-> (S_floorGrass :> S_floorGrass),
     defaults  |-> [ground |-> [tile |-> S_floorGrass, rot |-> 1, h |-> 0]],
     overrides |-> <<>>,
     layers    |-> <<>>,
     objects   |-> <<Obj("beer1", "item", 1, 0, 0)>>]

SampleLevels == {LevelA, LevelB}

\* fetch() rejected; response.ok false; response.json() rejected; the body
\* is the JSON literal null; a level description.
FetchOutcomes == {"rejected", "notok", "badjson", "nulljson", "ok"}

(***************************************************************************)
(* InputManager                                                            *)
(***************************************************************************)
\* Joystick radius in pixels (maxDist).
MaxDist == 40

\* floor of the square root, for 0 <= n < 2^16
ISqrt(n) == CHOOSE r \in 0..255 : r * r <= n /\ n < (r + 1) * (r + 1)

\* Vector2.length() of an integer vector, rounded down.
Length2(v) == ISqrt(v[1] * v[1] + v[2] * v[2])

\* The drags the user makes: along one screen axis.
DragVectors == {d \in DragPixels \X DragPixels : d[1] = 0 \/ d[2] = 0}

\* sign(a) * n
Signed(a, n) == IF a < 0 THEN -n ELSE n

\* |a|
Abs(a) == Signed(a, a)

\* updateDrag without the clamp to the joystick radius.
MutDragInput_NoClamp(diff) ==
    <<Signed(diff[1], (Abs(diff[1]) * 100) \div MaxDist),
      Signed(-diff[2], (Abs(diff[2]) * 100) \div MaxDist)>>

\* updateDrag: the input vector (percent, rounded towards 0) for a drag of
\* diff pixels.  A drag longer than maxDist is scaled to length maxDist:
\* its component c becomes c / |diff|.
DragInput(diff) ==
    LET sq == diff[1] * diff[1] + diff[2] * diff[2]
        Component(c) ==
            IF sq > MaxDist * MaxDist
            THEN ISqrt((100 * 100 * c * c) \div sq)
            ELSE (Abs(c) * 100) \div MaxDist
    IN  <<Signed(diff[1], Component(diff[1])),
          Signed(-diff[2], Component(diff[2]))>>

\* startDragt (touchstart, mousedown)
StartDrag ==
    /\ isTouching' = TRUE
    /\ joystickShown' = TRUE
    /\ UNCHANGED <<inputVector, gameVars, levelVars, charVars, lastFrame, itemVars, enemyVars,
                   uiVars>>

\* onTouchMove / onMouseMove -> updateDrag
MoveDrag(diff) ==
    /\ IF isTouching
       THEN inputVector' = DragInput(diff)
       ELSE UNCHANGED inputVector
    /\ UNCHANGED <<isTouching, joystickShown, gameVars, levelVars, charVars,
                   lastFrame, itemVars, enemyVars, uiVars>>

\* endDrag (touchend, mouseup)
EndDrag ==
    /\ isTouching' = FALSE
    /\ inputVector' = <<0, 0>>
    /\ joystickShown' = FALSE
    /\ UNCHANGED <<gameVars, levelVars, charVars, lastFrame, itemVars, enemyVars,
                   uiVars>>

(***************************************************************************)
(* CameraManager                                                           *)
(***************************************************************************)
SplashOffset == <<0, 3, 4>>
IsoOffset    == <<10, 10, 10>>

\* setView that zooms for gameplay but keeps the splash offset.
MutSetView_KeepOffset(type) ==
    IF type = "SPLASH" THEN <<3, SplashOffset>> ELSE <<15, SplashOffset>>

\* setView(type): <<viewSize, offset>> afterwards.
SetView(type) ==
    IF type = "SPLASH" THEN <<3, SplashOffset>> ELSE <<15, IsoOffset>>

\* The camera's ground-plane axes <<x, z>> used by Character.update
\* (getWorldDirection with y cleared, and its cross product with up), for
\* the camera as constructed at (0, 3, 4) looking down -Z.  The lerp of the
\* camera position in follow() is not modelled.
CamForward == <<0, -1>>
CamRight   == <<1, 0>>

(***************************************************************************)
(* Character                                                               *)
(***************************************************************************)
\* The six clips Character.load registers when every FBX has an animation.
AllAnims == {"walk", "run", "idle", "bored", "laiddown", "standup"}

\* Sets of clips for which fbx.animations[0] exists.
ClipSets == {AllAnims, {"walk", "run"}}

\* fadeToAction(name, duration): the active action afterwards.
FadeToAction(acts, active, name) ==
    IF name \notin acts THEN active
    ELSE IF active # name THEN name ELSE active

\* Character.update, lines 152-172: target speed in Milli per second for an
\* input magnitude in percent (lerp(0.5, walkSpeed, t), lerp(walkSpeed,
\* maxSpeed, t)).
TargetSpeed(inputMag) ==
    IF inputMag < 30
    THEN 500 + (3500 * (inputMag - 1)) \div 29
    ELSE 4000 + (6000 * (inputMag - 30)) \div 70

\* Character.update, lines 152-172: the animation for an input magnitude.
TargetAnim(inputMag) == IF inputMag < 30 THEN "walk" ELSE "run"

\* Character.update, lines 138-150 and 175: the step <<dx, dz>> in Milli
\* for an input (percent) and a frame time (ms).
MoveStep(input, delta) ==
    LET mx  == CamRight[1] * input[1] + CamForward[1] * input[2]
        mz  == CamRight[2] * input[1] + CamForward[2] * input[2]
        len == Length2(<<mx, mz>>)
        amount == (TargetSpeed(Length2(input)) * delta) \div 1000
    IN  IF len = 0 THEN <<0, 0>>
        ELSE <<(mx * amount) \div len, (mz * amount) \div len>>

\* Character.update that keeps the idle timer running while the character
\* moves.
MutCharacterUpdate_NoTimerReset(pos, acts, active, timer, delta, input, finished) ==
    LET mag  == Length2(input)
        step == MoveStep(input, delta)
    IN  IF mag > 1
        THEN <<<<pos[1] + step[1], pos[2], pos[3] + step[2]>>,
               FadeToAction(acts, active, TargetAnim(mag)),
               timer + delta>>
        ELSE <<pos,
               IF timer + delta > 15000 /\ "bored" \in acts
               THEN "bored" ELSE FadeToAction(acts, active, "idle"),
               timer + delta>>

\* Character.update(delta, input) on a loaded character: the new
\* <<position, activeAction, idleTimer>>.  finished tells whether
\* mixer.update(delta) reports the end of the bored clip, which runs the
\* 'finished' listener of Character.load first.
CharacterUpdate(pos, acts, active, timer, delta, input, finished) ==
    LET active0 == IF finished /\ active = "bored"
                   THEN FadeToAction(acts, active, "idle") ELSE active
        timer0  == IF finished /\ active = "bored" THEN 0 ELSE timer
        mag     == Length2(input)
        step    == MoveStep(input, delta)
    IN  IF mag > 1
        THEN <<<<pos[1] + step[1], pos[2], pos[3] + step[2]>>,
               FadeToAction(acts, active0, TargetAnim(mag)),
               0>>
        ELSE LET active1 == IF active0 # "bored"
                            THEN FadeToAction(acts, active0, "idle")
                            ELSE active0
                 timer1  == timer0 + delta
             IN  <<pos,
                   IF timer1 > 15000 /\ active1 # "bored" /\ "bored" \in acts
                   THEN FadeToAction(acts, active1, "bored") ELSE active1,
                   timer1>>

(***************************************************************************)
(* Game                                                                    *)
(***************************************************************************)
\* Game.loadLevel lines 157-159, run when levelManager.loadLevel settles:
\* the character is created and Character.load starts loading the model.
CreateCharacter ==
    /\ character' = TRUE
    /\ chPc' = "model"
    /\ UNCHANGED <<mesh, mixer, actions, activeAction, position, idleTimer,
                   oneShot>>

\* EnterGameplay that leaves the character where Character.load put it.
MutEnterGameplay_NoSpawn(acts, active) ==
    /\ position' = position
    /\ activeAction' = FadeToAction(acts, active, "idle")
    /\ viewSize' = SetView("GAMEPLAY")[1]
    /\ offset' = SetView("GAMEPLAY")[2]
    /\ state' = "GAMEPLAY"
    /\ inputEnabled' = TRUE

\* Game.loadLevel lines 161-169 and Game.startGame lines 96-99, run when
\* Character.load settles with the actions acts and the active action active.
EnterGameplay(acts, active) ==
    /\ position' = GetPlayerSpawn(levelData)
    /\ activeAction' = FadeToAction(acts, active, "idle")
    /\ viewSize' = SetView("GAMEPLAY")[1]
    /\ offset' = SetView("GAMEPLAY")[2]
    /\ state' = "GAMEPLAY"
    /\ inputEnabled' = TRUE

\* The most hide timers of one overlay pending at a time.
MaxTimers == 2

\* MainMenuUI after its constructor and LoadingUI after its constructor:
\* the classes of the element, its opacity, the hide timers that have not
\* fired, and the last of show() and hide() that was called.
NewMenu == [classes |-> {}, opacity |-> 1, timers |-> 0, last |-> "none"]

NewLoading ==
    [classes |-> {"hidden"}, opacity |-> 1, timers |-> 0, last |-> "none"]

\* MainMenuUI.show()
MenuShow(u) ==
    [u EXCEPT !.classes = (@ \ {"hidden"}) \cup {"fade-in"}, !.last = "show"]

\* MainMenuUI.hide(): the fade-out class, and a timer of 500 ms.
MenuHide(u) ==
    [u EXCEPT !.classes = @ \cup {"fade-out"}, !.timers = @ + 1,
              !.last = "hide"]

\* The callback of the timer of MainMenuUI.hide().
MenuTimer(u) ==
    [u EXCEPT !.classes = (@ \cup {"hidden"}) \ {"fade-out"},
              !.timers = @ - 1]

\* LoadingUI.show()
LoadingShow(u) == [u EXCEPT !.classes = @ \ {"hidden"}, !.last = "show"]

\* LoadingUI.hide(): opacity 0, and a timer of 500 ms.
LoadingHide(u) ==
    [u EXCEPT !.opacity = 0, !.timers = @ + 1, !.last = "hide"]

\* The callback of the timer of LoadingUI.hide().
LoadingTimer(u) ==
    [u EXCEPT !.classes = @ \cup {"hidden"}, !.opacity = 1,
              !.timers = @ - 1]

\* The overlays after Game.initUI, which shows the menu.
InitUi == [menu |-> MenuShow(NewMenu), loading |-> NewLoading]

\* StartGame that only ignores the button while a start is in progress.
MutStartGame_NoGuard ==
    IF state = "TRANSITIONING"
    THEN UNCHANGED vars
    ELSE /\ state' = "TRANSITIONING"
         /\ ui' = [ui EXCEPT !.menu = MenuHide(@)]
         /\ sceneClears' = 1
         /\ lmPc' = "fetching"
         /\ UNCHANGED <<inputEnabled, viewSize, offset, inputVars,
                        fetchOutcome, levelData, pending, models, tiles,
                        charVars, lastFrame, itemVars, enemyVars>>

\* StartGame without the look at the state: every press starts a load.
MutStartGame_Reenter ==
    /\ state' = "TRANSITIONING"
    /\ ui' = [ui EXCEPT !.menu = MenuHide(@)]
    /\ sceneClears' = sceneClears + 1
    /\ lmPc' = "fetching"
    /\ UNCHANGED <<inputEnabled, viewSize, offset, inputVars,
                   fetchOutcome, levelData, pending, models, tiles,
                   charVars, lastFrame, itemVars, enemyVars>>

\* The start button (click or touchstart) -> Game.startGame up to the fetch
\* in LevelManager.loadLevel.
StartGame ==
    IF state # "SPLASH"
    THEN UNCHANGED vars
    ELSE /\ state' = "TRANSITIONING"
         /\ ui' = [ui EXCEPT !.menu = MenuHide(@)]
         /\ sceneClears' = sceneClears + 1
         /\ lmPc' = "fetching"
         /\ UNCHANGED <<inputEnabled, viewSize, offset, inputVars,
                        fetchOutcome, levelData, pending, models, tiles,
                        charVars, lastFrame, itemVars, enemyVars>>

\* FetchSettle that stores the body before looking at response.ok.
MutFetchSettle_StoreBeforeOk(outcome, ld) ==
    /\ lmPc = "fetching"
    /\ fetchOutcome' = IF outcome = "ok" THEN "ok" ELSE "failed"
    /\ levelData' = IF outcome \in {"ok", "notok"} THEN ld ELSE levelData
    /\ pending' = IF outcome = "ok" THEN PreloadKeys(ld.tilesets) ELSE pending
    /\ IF outcome = "ok" /\ PreloadKeys(ld.tilesets) # {}
       THEN /\ lmPc' = "preloading"
            /\ UNCHANGED <<tiles, charVars>>
       ELSE /\ tiles' = IF outcome = "ok" THEN tiles \o BuildLevel(ld, models)
                        ELSE tiles
            /\ lmPc' = "done"
            /\ CreateCharacter
    /\ UNCHANGED <<models, gameVars, inputVars, lastFrame, itemVars, enemyVars,
                   uiVars>>

\* LevelManager.loadLevel lines 238-248: the fetch (and the JSON body)
\* settles.  A failure is caught; a level starts preloadAssets, and when
\* that has nothing to load buildLevel runs at once.
FetchSettle(outcome, ld) ==
    /\ lmPc = "fetching"
    /\ fetchOutcome' = IF outcome = "ok" THEN "ok" ELSE "failed"
    /\ IF outcome = "ok"
       THEN /\ levelData' = ld
            /\ pending' = PreloadKeys(ld.tilesets)
            /\ IF PreloadKeys(ld.tilesets) = {}
               THEN /\ tiles' = tiles \o BuildLevel(ld, models)
                    /\ lmPc' = "done"
                    /\ CreateCharacter
               ELSE /\ lmPc' = "preloading"
                    /\ UNCHANGED <<tiles, charVars>>
       ELSE /\ lmPc' = "done"
            /\ CreateCharacter
            /\ UNCHANGED <<levelData, pending, tiles>>
    /\ UNCHANGED <<models, gameVars, inputVars, lastFrame, itemVars, enemyVars,
                   uiVars>>

\* LevelManager.preloadAssets lines 260-304: one GLB load settles (ok, with
\* the measured height, or failed and logged); after the last one
\* Promise.all resolves and buildLevel runs.
ModelSettle(key, ok, height) ==
    /\ lmPc = "preloading"
    /\ key \in pending
    /\ LET mdl == IF ok THEN (key :> height) @@ models ELSE models
       IN  /\ models' = mdl
           /\ pending' = pending \ {key}
           /\ IF pending \ {key} = {}
              THEN /\ tiles' = tiles \o BuildLevel(levelData, mdl)
                   /\ lmPc' = "done"
                   /\ CreateCharacter
              ELSE UNCHANGED <<tiles, lmPc, charVars>>
    /\ UNCHANGED <<fetchOutcome, levelData, gameVars, inputVars, lastFrame, itemVars, enemyVars,
                   uiVars>>

\* CharModelSettle without the try/catch: a failed model load rejects
\* load(), and with it Game.loadLevel and Game.startGame.
MutCharModelSettle_NoCatch(ok) ==
    /\ chPc = "model"
    /\ IF ok
       THEN /\ mesh' = TRUE
            /\ mixer' = TRUE
            /\ position' = <<0, 0, 0>>
            /\ chPc' = "anims"
            /\ UNCHANGED <<actions, activeAction, gameVars>>
       ELSE /\ chPc' = "rejected"
            /\ UNCHANGED <<mesh, mixer, position, actions, activeAction, gameVars>>
    /\ UNCHANGED <<character, idleTimer, oneShot, inputVars, levelVars,
                   lastFrame, itemVars, enemyVars, uiVars>>

\* Character.load lines 27-62 and 117-119: the model load settles.  A
\* failure is caught and load() resolves.
CharModelSettle(ok) ==
    /\ chPc = "model"
    /\ IF ok
       THEN /\ mesh' = TRUE
            /\ mixer' = TRUE
            /\ position' = <<0, 0, 0>>
            /\ chPc' = "anims"
            /\ UNCHANGED <<actions, activeAction, gameVars>>
       ELSE /\ chPc' = "done"
            /\ EnterGameplay(actions, activeAction)
            /\ UNCHANGED <<mesh, mixer, actions, sceneClears>>
    /\ UNCHANGED <<character, idleTimer, oneShot, inputVars, levelVars,
                   lastFrame, itemVars, enemyVars, uiVars>>

\* Character.load lines 64-119: the six animation loads settle (all ok, with
\* the clips found in them, or one rejected, which is caught).
CharAnimsSettle(ok, clips) ==
    /\ chPc = "anims"
    /\ chPc' = "done"
    /\ LET acts   == IF ok THEN clips ELSE actions
           active == IF ok /\ "idle" \in clips THEN "idle" ELSE activeAction
       IN  /\ actions' = acts
           /\ EnterGameplay(acts, active)
    /\ UNCHANGED <<character, mesh, mixer, idleTimer, oneShot, sceneClears,
                   inputVars, levelVars, lastFrame, itemVars, enemyVars,
                   uiVars>>

\* Animate that updates the character in every state once it exists.
MutAnimate_AlwaysUpdate(delta, finished) ==
    IF character
    THEN /\ lastFrame' = "update"
         /\ UNCHANGED <<gameVars, inputVars, levelVars, charVars, itemVars, enemyVars,
                   uiVars>>
    ELSE /\ lastFrame' = "skip"
         /\ UNCHANGED <<gameVars, inputVars, levelVars, charVars, itemVars, enemyVars,
                   uiVars>>

\* Game.animate: one frame with clock.getDelta() = delta.
Animate(delta, finished) ==
    IF character /\ state # "SPLASH"
    THEN IF state = "GAMEPLAY"
         THEN /\ lastFrame' = "update"
              /\ IF mesh /\ mixer
                 THEN \E r \in {CharacterUpdate(position, actions, activeAction,
                                                 idleTimer, delta, inputVector,
                                                 finished)} :
                          /\ r[1][1] \in -PosLimit..PosLimit
                          /\ r[1][3] \in -PosLimit..PosLimit
                          /\ position' = r[1]
                          /\ activeAction' = r[2]
                          /\ idleTimer' = r[3]
                 ELSE UNCHANGED <<position, activeAction, idleTimer>>
              /\ UNCHANGED <<character, chPc, mesh, mixer, actions, oneShot,
                             gameVars, inputVars, levelVars,
                             itemVars, enemyVars, uiVars>>
         ELSE /\ lastFrame' = "mixer"
              /\ UNCHANGED <<gameVars, inputVars, levelVars, charVars, itemVars, enemyVars,
                   uiVars>>
    ELSE /\ lastFrame' = "skip"
         /\ UNCHANGED <<gameVars, inputVars, levelVars, charVars, itemVars, enemyVars,
                   uiVars>>

\* The other variables of a step that only touches an overlay.
UiOnly ==
    UNCHANGED <<state, inputEnabled, viewSize, offset, sceneClears,
                inputVars, levelVars, charVars, lastFrame, itemVars,
                enemyVars>>

\* A call of show() on the menu or on the loading screen.
UiShow(name) ==
    /\ ui' = [ui EXCEPT ![name] =
                 IF name = "menu" THEN MenuShow(@) ELSE LoadingShow(@)]
    /\ UiOnly

\* A call of hide() on the menu or on the loading screen.
UiHide(name) ==
    /\ ui[name].timers < MaxTimers
    /\ ui' = [ui EXCEPT ![name] =
                 IF name = "menu" THEN MenuHide(@) ELSE LoadingHide(@)]
    /\ UiOnly

\* A hide timer of the overlay fires, 500 ms after the hide() that set it.
UiTimer(name) ==
    /\ ui[name].timers > 0
    /\ ui' = [ui EXCEPT ![name] =
                 IF name = "menu" THEN MenuTimer(@) ELSE LoadingTimer(@)]
    /\ UiOnly

Init ==
    /\ state = "SPLASH"
    /\ inputEnabled = FALSE
    /\ isTouching = FALSE
    /\ inputVector = <<0, 0>>
    /\ joystickShown = FALSE
    /\ viewSize = 15
    /\ offset = SplashOffset
    /\ lmPc = "idle"
    /\ fetchOutcome = "none"
    /\ levelData = Null
    /\ pending = {}
    /\ models = <<>>
    /\ tiles = <<>>
    /\ sceneClears = 0
    /\ character = FALSE
    /\ chPc = "idle"
    /\ mesh = FALSE
    /\ mixer = FALSE
    /\ actions = {}
    /\ activeAction = NoAction
    /\ position = <<0, 0, 0>>
    /\ idleTimer = 0
    /\ oneShot = NoAction
    /\ lastFrame = "none"
    /\ itPc = "idle"
    /\ itQueue = [tileSize |-> 1, objs |-> <<>>]
    /\ modelCache = {}
    /\ items = <<>>
    /\ sceneItems = {}
    /\ collects = <<>>
    /\ itemPlayer = <<0, 0, 0>>
    /\ enemy = NewEnemy
    /\ gameOvers = 0
    /\ ui = InitUi

Next ==
    \/ StartGame
    \/ UiTimer("menu")
    \/ \E o \in FetchOutcomes, ld \in SampleLevels : FetchSettle(o, ld)
    \/ \E k \in pending, ok \in BOOLEAN, h \in ModelHeights : ModelSettle(k, ok, h)
    \/ \E ok \in BOOLEAN : CharModelSettle(ok)
    \/ \E ok \in BOOLEAN, clips \in ClipSets : CharAnimsSettle(ok, clips)
    \/ \E d \in Deltas, f \in BOOLEAN :
          Animate(d, f) /\ idleTimer' <= MaxIdleTimer
    \/ StartDrag
    \/ \E diff \in DragVectors : MoveDrag(diff)
    \/ EndDrag

Spec == Init /\ [][Next]_vars

\* Every load that was started settles: the loader and fetch promises of
\* the level, its models, the character model and the animations.
FairSpec ==
    /\ Spec
    /\ WF_vars(\E o \in FetchOutcomes, ld \in SampleLevels : FetchSettle(o, ld))
    /\ WF_vars(\E k \in pending, ok \in BOOLEAN, h \in ModelHeights : ModelSettle(k, ok, h))
    /\ WF_vars(\E ok \in BOOLEAN : CharModelSettle(ok))
    /\ WF_vars(\E ok \in BOOLEAN, clips \in ClipSets : CharAnimsSettle(ok, clips))

(***************************************************************************)
(* Properties of the game flow                                             *)
(***************************************************************************)
\* C1: Game.state starts as SPLASH and only ever changes SPLASH ->
\* TRANSITIONING and TRANSITIONING -> GAMEPLAY: no step backwards, no step
\* from SPLASH to GAMEPLAY, no step out of GAMEPLAY.
C1_StateOrder ==
    /\ state = "SPLASH"
    /\ [][state' # state =>
            \/ (state = "SPLASH" /\ state' = "TRANSITIONING")
            \/ (state = "TRANSITIONING" /\ state' = "GAMEPLAY")]_vars

\* The game reached GAMEPLAY, ran a frame there, and the start button cleared
\* the scene on the way.
C1_Witness ==
    state = "GAMEPLAY" /\ sceneClears = 1 /\ lastFrame = "update"

\* C2: the state is GAMEPLAY, or a frame has called Character.update, only
\* when LevelManager.loadLevel and Character.load have both settled and no
\* model load is pending.
C2_GameplayAfterLoads ==
    (state = "GAMEPLAY" \/ lastFrame = "update")
        => (lmPc = "done" /\ chPc = "done" /\ pending = {})

\* A frame called Character.update on a loaded character in a loaded level.
C2_Witness ==
    lastFrame = "update" /\ levelData # Null /\ mesh /\ "walk" \in actions

\* C3: once the game is TRANSITIONING it eventually is in GAMEPLAY, whatever
\* the outcome of each load, provided each load settles.
C3_ReachesGameplay == (state = "TRANSITIONING") ~> (state = "GAMEPLAY")

\* GAMEPLAY was reached although the level fetch and the character model
\* load both failed.
C3_Witness ==
    state = "GAMEPLAY" /\ fetchOutcome = "failed" /\ ~mesh

\* C4: in GAMEPLAY, when the spawn position is walkable, the position of
\* the player is walkable.
C4_PlayerStaysWalkable ==
    (state = "GAMEPLAY"
        /\ IsWalkable(levelData, GetPlayerSpawn(levelData)[1],
                      GetPlayerSpawn(levelData)[3]))
        => IsWalkable(levelData, position[1], position[3])

\* World coordinates at which the walkability predicate is sampled.
QueryCoords == {-1000, -501, -500, 0, 499, 500, 1000, 1499, 1500, 2000, 3000}

\* C8: while no level was loaded (loadLevel not called, or its fetch
\* failed) levelData is null, nothing was built, every point is walkable
\* and the player spawn is the origin.
C8_NoLevelData ==
    (fetchOutcome # "ok") =>
        /\ levelData = Null
        /\ tiles = <<>>
        /\ \A x \in QueryCoords, z \in QueryCoords : IsWalkable(levelData, x, z)
        /\ GetPlayerSpawn(levelData) = <<0, 0, 0>>

\* The fetch failed, loadLevel settled and the game is played without a
\* level.
C8_Witness ==
    fetchOutcome = "failed" /\ lmPc = "done" /\ state = "GAMEPLAY" /\ mesh

\* C9: in the step that makes the state GAMEPLAY the character is put at
\* the first level object of type 'spawn' (grid x and y times the tile
\* size, height h), or at the origin when there is no level or no such
\* object.
C9_SpawnAtGameplay ==
    [][(state # "GAMEPLAY" /\ state' = "GAMEPLAY") =>
          IF levelData' = Null
             \/ \A i \in 1..Len(levelData'.objects) : levelData'.objects[i].type # "spawn"
          THEN position' = <<0, 0, 0>>
          ELSE \E i \in 1..Len(levelData'.objects) :
                  /\ levelData'.objects[i].type = "spawn"
                  /\ \A j \in 1..(i - 1) : levelData'.objects[j].type # "spawn"
                  /\ position' = <<levelData'.objects[i].x * levelData'.meta.tileSize * Milli,
                                   levelData'.objects[i].h * Milli,
                                   levelData'.objects[i].y * levelData'.meta.tileSize * Milli>>]_vars

\* GAMEPLAY was just entered (no gameplay frame yet) in the level whose
\* spawn object is at grid (1, 0).
C9_Witness ==
    /\ state = "GAMEPLAY"
    /\ lastFrame # "update"
    /\ levelData = LevelA
    /\ position = <<1000, 0, 0>>

\* C10: in GAMEPLAY the joystick is enabled and the camera has the isometric
\* preset; in SPLASH and TRANSITIONING the joystick is disabled and no frame
\* has called Character.update.
C10_ControlOnlyInGameplay ==
    /\ state = "GAMEPLAY" =>
           (inputEnabled /\ viewSize = 15 /\ offset = IsoOffset)
    /\ state \in {"SPLASH", "TRANSITIONING"} =>
           (~inputEnabled /\ lastFrame # "update")

\* A frame ran in TRANSITIONING with the character created: it only advanced
\* the mixer.
C10_Witness ==
    state = "TRANSITIONING" /\ character /\ lastFrame = "mixer"

(***************************************************************************)
(* Level descriptions in general                                           *)
(***************************************************************************)
\* Longest overrides list, and longest cell list of the obstacle layer.
MaxOverrides == 2
MaxCells == 2

SeqsUpTo(S, n) == UNION {[1..k -> S] : k \in 0..n}

OverrideChoices ==
    {Cell(0, 0, S_wall), [Cell(0, 0, S_floorGrass) EXCEPT !.h = 1],
     Cell(1, 0, S_wall)}

LayerCellChoices ==
    {Cell(0, 0, S_floor), Cell(0, 0, S_tree), Cell(1, 0, S_tree), Cell(-1, 1, S_tree)}

MetaChoices ==
    {[tileSize |-> 1, width |-> 1, height |-> 1],
     [tileSize |-> 2, width |-> 2, height |-> 1],
     [tileSize |-> 1, width |-> 2, height |-> 2]}

TilesetChoices ==
    {(S_floor :> S_primBox) @@ (S_floorGrass :> S_floorGrass)
         @@ (S_wall :> S_primBox) @@ (S_tree :> S_tree),
     (S_floor :> S_primBall) @@ (S_floorGrass :> S_floorGrass)
         @@ (S_wall :> S_primBox)}

\* A second layer above the obstacles: absent, or a wall at (0, 0) and a
\* floor at (1, 0).
UpperLayerChoices ==
    {<<>>, <<[name |-> "upper", z |-> 1,
              cells |-> <<Cell(0, 0, S_wall), Cell(1, 0, S_floor)>>]>>}

LevelDescriptions ==
    {[meta      |-> m,
      tilesets  |-> ts,
      defaults  |-> [ground |-> [tile |-> g, rot |-> 0, h |-> 0]],
      overrides |-> ov,
      layers    |-> <<[name |-> "obstacles", z |-> 0, cells |-> lc]>> \o up,
      objects   |-> <<>>] :
        m \in MetaChoices, ts \in TilesetChoices, g \in {S_floor, S_wall},
        ov \in SeqsUpTo(OverrideChoices, MaxOverrides),
        lc \in SeqsUpTo(LayerCellChoices, MaxCells),
        up \in UpperLayerChoices}

\* The level manager loading any level description: the start button, the
\* fetch delivering the description, and the model loads settling.
LevelNext ==
    \/ StartGame
    \/ \E ld \in LevelDescriptions : FetchSettle("ok", ld)
    \/ \E k \in pending, ok \in BOOLEAN, h \in ModelHeights : ModelSettle(k, ok, h)

SpecLevel == Init /\ [][LevelNext]_vars

(***************************************************************************)
(* Properties of the level                                                 *)
(***************************************************************************)
\* World coordinates at which a loaded level is probed.
ProbeCoords == {-1001, -501, -500, 0, 499, 500, 999, 1000, 1499, 1500, 2999, 3000}

\* The ground tile ID of grid cell (gx, gy): that of the first override
\* listed for the cell, or the default ground.
GroundTileOf(ld, gx, gy) ==
    IF \E i \in 1..Len(ld.overrides) : ld.overrides[i].x = gx /\ ld.overrides[i].y = gy
    THEN ld.overrides[CHOOSE i \in 1..Len(ld.overrides) :
                         /\ ld.overrides[i].x = gx /\ ld.overrides[i].y = gy
                         /\ \A j \in 1..(i - 1) :
                               ~(ld.overrides[j].x = gx /\ ld.overrides[j].y = gy)].tile
    ELSE ld.defaults.ground.tile

\* C5: with a level loaded, isWalkable(x, z) is true exactly when the cell
\* (round(x/tileSize), round(z/tileSize)) is inside the grid, its ground
\* tile has 'floor' in its ID, and every cell of every layer at that
\* coordinate has 'floor' in its ID.
C5_WalkableIffAllFloor ==
    levelData # Null =>
        \A x \in ProbeCoords, z \in ProbeCoords :
            LET gx == Round(x, levelData.meta.tileSize * Milli)
                gy == Round(z, levelData.meta.tileSize * Milli)
            IN  IsWalkable(levelData, x, z) <=>
                    /\ gx \in 0..(levelData.meta.width - 1)
                    /\ gy \in 0..(levelData.meta.height - 1)
                    /\ Includes(GroundTileOf(levelData, gx, gy), S_floor)
                    /\ \A l \in 1..Len(levelData.layers) :
                          \A c \in 1..Len(levelData.layers[l].cells) :
                             (levelData.layers[l].cells[c].x = gx
                                 /\ levelData.layers[l].cells[c].y = gy)
                                => Includes(levelData.layers[l].cells[c].tile, S_floor)

\* The ground tiles (default or override) placed for grid cell (gx, gy).
GroundTilesAt(gx, gy) ==
    {i \in DOMAIN tiles : tiles[i].src \in {"ground", "override"}
                             /\ tiles[i].gx = gx /\ tiles[i].gy = gy}

\* A tile ID that spawnTile can show: it has a tileset entry that is the box
\* primitive or a GLB model that was loaded.
Spawnable(tileId) ==
    /\ tileId \in DOMAIN levelData.tilesets
    /\ \/ levelData.tilesets[tileId] = S_primBox
       \/ /\ ~StartsWith(levelData.tilesets[tileId], S_primitive)
          /\ levelData.tilesets[tileId] \in DOMAIN models

\* C6 as stated: once the level is built every grid cell has exactly one
\* ground tile, the override tile if the cell has an override and the
\* default ground tile otherwise.
C6_ExactlyOneGroundTile ==
    (lmPc = "done" /\ levelData # Null) =>
        \A gx \in 0..(levelData.meta.width - 1), gy \in 0..(levelData.meta.height - 1) :
            /\ Cardinality(GroundTilesAt(gx, gy)) = 1
            /\ \A i \in GroundTilesAt(gx, gy) :
                  tiles[i].obj.tile = GroundTileOf(levelData, gx, gy)

\* C6 amended: once the level is built every grid cell has at most one
\* ground tile; it has exactly one, showing the tile of the cell's first
\* override or else the default ground tile, when that tile is spawnable,
\* and none when it is not; no ground tile lies outside the grid.
C6_AtMostOneGroundTile ==
    (lmPc = "done" /\ levelData # Null) =>
        /\ \A gx \in 0..(levelData.meta.width - 1), gy \in 0..(levelData.meta.height - 1) :
              IF Spawnable(GroundTileOf(levelData, gx, gy))
              THEN /\ Cardinality(GroundTilesAt(gx, gy)) = 1
                   /\ \A i \in GroundTilesAt(gx, gy) :
                         /\ tiles[i].obj.tile = GroundTileOf(levelData, gx, gy)
                         /\ tiles[i].obj.pos[1] = gx * levelData.meta.tileSize * Milli
                         /\ tiles[i].obj.pos[3] = gy * levelData.meta.tileSize * Milli
              ELSE GroundTilesAt(gx, gy) = {}
        /\ \A i \in DOMAIN tiles :
              tiles[i].src \in {"ground", "override"} =>
                  /\ tiles[i].gx \in 0..(levelData.meta.width - 1)
                  /\ tiles[i].gy \in 0..(levelData.meta.height - 1)

\* A 2 x 2 level was built in which cell (0, 0) has two override entries
\* and shows one ground tile, that of the first entry.
C6_Witness ==
    /\ lmPc = "done"
    /\ levelData # Null
    /\ levelData.meta.width = 2
    /\ Len(levelData.overrides) = 2
    /\ levelData.overrides[1].x = 0 /\ levelData.overrides[2].x = 0
    /\ levelData.overrides[1].tile # levelData.overrides[2].tile
    /\ Cardinality(GroundTilesAt(0, 0)) = 1
    /\ Cardinality(GroundTilesAt(1, 1)) = 1

\* C7: every tile buildLevel placed (ground, override or layer cell) has
\* grid coordinates inside the declared width and height.
C7_TilesInsideGrid ==
    (lmPc = "done" /\ levelData # Null) =>
        \A i \in DOMAIN tiles :
            /\ tiles[i].gx \in 0..(levelData.meta.width - 1)
            /\ tiles[i].gy \in 0..(levelData.meta.height - 1)
            /\ tiles[i].obj.pos[1] = tiles[i].gx * levelData.meta.tileSize * Milli
            /\ tiles[i].obj.pos[3] = tiles[i].gy * levelData.meta.tileSize * Milli

(***************************************************************************)
(* Properties of input, animation choice and camera                        *)
(***************************************************************************)
\* C11: while inputManager.enabled is false (SPLASH and TRANSITIONING) the
\* touch and mouse events leave inputVector at (0, 0), so it is (0, 0) when
\* the game enters GAMEPLAY.
C11_JoystickDisabledInMenu == ~inputEnabled => inputVector = <<0, 0>>

\* The animations the documented thresholds allow for an input magnitude
\* m in percent.
C13_Expected(m) ==
    IF m <= 1 THEN {"idle", "bored"}
    ELSE IF m <= 30 THEN {"walk"} ELSE {"run"}

\* C13: a frame of Character.update with all animations registered leaves
\* the animation chosen by the input magnitude m: idle or bored when m is
\* at most 1%, walk for m above 1% up to and including 30%, run only above
\* 30%.
C13_AnimationByMagnitude ==
    [][(state = "GAMEPLAY" /\ mesh /\ mixer /\ actions = AllAnims
            /\ inputVars' = inputVars /\ ui' = ui)
        => activeAction' \in C13_Expected(Length2(inputVector))]_vars

\* C18: the camera configuration is one of the two presets, the close-up
\* (offset (0, 3, 4), viewSize 3) or the isometric one (offset (10, 10, 10),
\* viewSize 15), never a mix of the two.
C18_TwoPresets ==
    <<viewSize, offset>> \in {<<3, SplashOffset>>, <<15, IsoOffset>>}

(***************************************************************************)
(* The joystick on its own: drags in every direction                       *)
(***************************************************************************)
\* Pixel offsets of the pointer from the point where the drag started.
InputPixels == {-80, -60, -41, -40, -30, -20, -12, 0, 12, 20, 30, 40, 41, 60, 80}

InputDiffs == InputPixels \X InputPixels

\* The touch and mouse events of InputManager.
InputNext ==
    \/ StartDrag
    \/ \E diff \in InputDiffs : MoveDrag(diff)
    \/ EndDrag

SpecInput == Init /\ [][InputNext]_vars

\* C19: after any sequence of touch and mouse events the magnitude of
\* inputVector is at most 1 (100 percent), inputVector is (0, 0) whenever no
\* drag is in progress, and the joystick element is displayed exactly while
\* a drag is in progress.
C19_JoystickVector ==
    /\ inputVector[1] * inputVector[1] + inputVector[2] * inputVector[2]
          <= 100 * 100
    /\ ~isTouching => inputVector = <<0, 0>>
    /\ joystickShown <=> isTouching

\* A drag beyond the joystick radius, off the axes, is in progress.
C19_Witness ==
    /\ isTouching
    /\ joystickShown
    /\ inputVector[1] # 0
    /\ inputVector[2] # 0
    /\ Length2(inputVector) >= 98

(***************************************************************************)
(* Height of the spawned tiles                                             *)
(***************************************************************************)
\* C20: a tile whose id contains 'floor' has its top surface at the cell's
\* height y (a box primitive is centred at y - size/2, a GLB model stands
\* at y - its height), and a box primitive of any other tile has its bottom
\* at y (centred at y + size/2).
C20_FloorOffsets ==
    \A i \in DOMAIN tiles :
        LET o == tiles[i].obj
        IN  /\ (Includes(o.tile, S_floor) /\ o.key = S_primBox)
                  => o.pos[2] + o.size \div 2 = o.y
            /\ (Includes(o.tile, S_floor) /\ ~StartsWith(o.key, S_primitive))
                  => o.pos[2] + models[o.key] = o.y
            /\ (~Includes(o.tile, S_floor) /\ o.key = S_primBox)
                  => o.pos[2] - o.size \div 2 = o.y

\* A level was built with a box floor and a GLB floor at height 1 and a
\* wall box above the ground.
C20_Witness ==
    /\ \E i \in DOMAIN tiles :
          /\ Includes(tiles[i].obj.tile, S_floor)
          /\ tiles[i].obj.key = S_primBox
          /\ tiles[i].obj.y = Milli
    /\ \E i \in DOMAIN tiles :
          /\ Includes(tiles[i].obj.tile, S_floor)
          /\ ~StartsWith(tiles[i].obj.key, S_primitive)
          /\ tiles[i].obj.y = Milli
    /\ \E i \in DOMAIN tiles :
          /\ ~Includes(tiles[i].obj.tile, S_floor)
          /\ tiles[i].obj.key = S_primBox
          /\ tiles[i].obj.y = Milli

(***************************************************************************)
(* The idle timer: a game without a level, long idle periods               *)
(***************************************************************************)
MaxBoredTimer == 16500

\* Frame times in ms: a regular frame, and frames after the page was in
\* the background for 8 s and for 16 s.
IdleDeltas == {250, 8000, 16000}

\* The drags of this game: released at the press point or 12 px to the
\* right.
IdleDrags == {<<0, 0>>, <<12, 0>>}

\* The game started with a level that cannot be fetched and a character
\* whose model and animations all load.
IdleNext ==
    \/ StartGame
    \/ FetchSettle("rejected", LevelA)
    \/ CharModelSettle(TRUE)
    \/ CharAnimsSettle(TRUE, AllAnims)
    \/ \E d \in IdleDeltas, f \in BOOLEAN :
          Animate(d, f) /\ idleTimer' <= MaxBoredTimer
    \/ StartDrag
    \/ \E diff \in IdleDrags : MoveDrag(diff)
    \/ EndDrag

SpecIdle == Init /\ [][IdleNext]_vars

\* A step that is a frame of Character.update on the loaded character.
C14_Frame ==
    /\ state = "GAMEPLAY"
    /\ mesh
    /\ mixer
    /\ inputVars' = inputVars

\* C14: bored becomes the active action only in a frame without movement
\* input that brings the idle timer above 15 s, and the timer changes only
\* by growing by the time of such a frame, or by a reset to 0 on movement
\* or on the end of bored; a frame with movement input sets the timer to
\* 0 and leaves walk or run active, also when bored was active; when bored
\* ends, idle is active and the timer has restarted from 0: after that
\* frame it holds that frame's time only.
C14_BoredAfterIdle ==
    [][/\ (activeAction' = "bored" /\ activeAction # "bored")
            => (idleTimer' > 15000 /\ Length2(inputVector) <= 1)
       /\ idleTimer' # idleTimer
            => IF Length2(inputVector) > 1
               THEN idleTimer' = 0
               ELSE \/ idleTimer' - idleTimer \in IdleDeltas
                    \/ activeAction = "bored" /\ idleTimer' \in IdleDeltas
       /\ (C14_Frame /\ Length2(inputVector) > 1)
            => (idleTimer' = 0 /\ activeAction' \in {"walk", "run"})
       /\ (activeAction = "bored" /\ activeAction' = "idle")
            => (idleTimer' \in IdleDeltas /\ Length2(inputVector) <= 1)
      ]_vars

\* bored is playing after more than 15 s of idle frames.
C14_Witness ==
    /\ activeAction = "bored"
    /\ idleTimer > 15000
    /\ lastFrame = "update"

(***************************************************************************)
(* The game with the splash animations: no level, the character is        *)
(* created by the constructor and startGame waits for standup              *)
(***************************************************************************)
\* The state after the constructor: initScene created the character and
\* started Character.load, and animate() ran once.
SplashInit ==
    /\ state = "SPLASH"
    /\ inputEnabled = FALSE
    /\ isTouching = FALSE
    /\ inputVector = <<0, 0>>
    /\ joystickShown = FALSE
    /\ viewSize = 15
    /\ offset = SplashOffset
    /\ lmPc = "idle"
    /\ fetchOutcome = "none"
    /\ levelData = Null
    /\ pending = {}
    /\ models = <<>>
    /\ tiles = <<>>
    /\ sceneClears = 0
    /\ character = TRUE
    /\ chPc = "model"
    /\ mesh = FALSE
    /\ mixer = FALSE
    /\ actions = {}
    /\ activeAction = NoAction
    /\ position = <<0, 0, 0>>
    /\ idleTimer = 0
    /\ oneShot = NoAction
    /\ lastFrame = "mixer"
    /\ itPc = "idle"
    /\ itQueue = [tileSize |-> 1, objs |-> <<>>]
    /\ modelCache = {}
    /\ items = <<>>
    /\ sceneItems = {}
    /\ collects = <<>>
    /\ itemPlayer = <<0, 0, 0>>
    /\ enemy = NewEnemy
    /\ gameOvers = 0
    /\ ui = InitUi

\* The continuation of startGame after the awaited promise.
SplashEnterGameplay ==
    /\ viewSize' = SetView("GAMEPLAY")[1]
    /\ offset' = SetView("GAMEPLAY")[2]
    /\ state' = "GAMEPLAY"
    /\ inputEnabled' = TRUE

\* startGame that does not wait for the animation.
MutSplashStartGame_NoWait ==
    IF state # "SPLASH" \/ ~character
    THEN UNCHANGED vars
    ELSE /\ SplashEnterGameplay
         /\ ui' = [ui EXCEPT !.menu = MenuHide(@)]
         /\ activeAction' = FadeToAction(actions, activeAction, "standup")
         /\ UNCHANGED <<sceneClears, inputVars, levelVars, character, chPc,
                        mesh, mixer, actions, position, idleTimer, oneShot,
                        lastFrame, itemVars, enemyVars>>

\* The start button -> startGame up to the await.  playOneShotAnimation
\* resolves at once without the action or the mixer, and then startGame
\* runs to its end; otherwise it fades to the action and waits for the
\* mixer's 'finished' event.
SplashStartGame ==
    IF state # "SPLASH" \/ ~character
    THEN UNCHANGED vars
    ELSE /\ ui' = [ui EXCEPT !.menu = MenuHide(@)]
         /\ IF "standup" \notin actions \/ ~mixer
            THEN /\ SplashEnterGameplay
                 /\ UNCHANGED <<sceneClears, inputVars, levelVars, charVars,
                                lastFrame, itemVars, enemyVars>>
            ELSE /\ state' = "TRANSITIONING"
                 /\ activeAction' = FadeToAction(actions, activeAction, "standup")
                 /\ oneShot' = "standup"
                 /\ UNCHANGED <<inputEnabled, viewSize, offset, sceneClears,
                                inputVars, levelVars, character, chPc, mesh,
                                mixer, actions, position, idleTimer,
                                lastFrame, itemVars, enemyVars>>

\* Character.load: the model load settles; after a failure load() resolves
\* and the then() of initScene finds no laiddown action.
SplashCharModelSettle(ok) ==
    /\ chPc = "model"
    /\ IF ok
       THEN /\ mesh' = TRUE
            /\ mixer' = TRUE
            /\ position' = <<0, 0, 0>>
            /\ chPc' = "anims"
       ELSE /\ chPc' = "done"
            /\ UNCHANGED <<mesh, mixer, position>>
    /\ UNCHANGED <<character, actions, activeAction, idleTimer, oneShot,
                   gameVars, inputVars, levelVars, lastFrame, itemVars, enemyVars,
                   uiVars>>

\* Character.load: the animation loads settle, load() resolves and the
\* then() of initScene fades to laiddown while the state is SPLASH.
SplashCharAnimsSettle(ok, clips) ==
    /\ chPc = "anims"
    /\ chPc' = "done"
    /\ LET acts   == IF ok THEN clips ELSE actions
           active == IF ok /\ "idle" \in clips THEN "idle" ELSE activeAction
       IN  /\ actions' = acts
           /\ activeAction' = IF state = "SPLASH" /\ character
                              THEN FadeToAction(acts, active, "laiddown")
                              ELSE active
    /\ UNCHANGED <<character, mesh, mixer, position, idleTimer, oneShot,
                   gameVars, inputVars, levelVars, lastFrame, itemVars, enemyVars,
                   uiVars>>

\* animate: one frame.  Outside GAMEPLAY only the mixer is updated;
\* finished tells whether it reports the end of the running one-shot clip,
\* which resolves the promise startGame awaits.
SplashAnimate(delta, finished) ==
    IF state = "GAMEPLAY"
    THEN Animate(delta, finished)
    ELSE IF character /\ mixer /\ finished /\ oneShot # NoAction
              /\ activeAction = oneShot
         THEN /\ lastFrame' = "finished"
              /\ oneShot' = NoAction
              /\ SplashEnterGameplay
              /\ UNCHANGED <<sceneClears, inputVars, levelVars, character,
                             chPc, mesh, mixer, actions, activeAction,
                             position, idleTimer, itemVars, enemyVars,
                   uiVars>>
         ELSE /\ lastFrame' = IF character THEN "mixer" ELSE "skip"
              /\ UNCHANGED <<gameVars, inputVars, levelVars, charVars, itemVars, enemyVars,
                   uiVars>>

SplashNext ==
    \/ SplashStartGame
    \/ \E ok \in BOOLEAN : SplashCharModelSettle(ok)
    \/ \E ok \in BOOLEAN, clips \in ClipSets : SplashCharAnimsSettle(ok, clips)
    \/ \E d \in Deltas, f \in BOOLEAN :
          SplashAnimate(d, f) /\ idleTimer' <= MaxIdleTimer
    \/ StartDrag
    \/ \E diff \in DragVectors : MoveDrag(diff)
    \/ EndDrag

SpecSplash == SplashInit /\ [][SplashNext]_vars

\* C12: the state becomes GAMEPLAY only in the frame in which the mixer
\* reports 'finished' for the standup action startGame is waiting for, or
\* in startGame itself when no standup action is registered; while the
\* state is TRANSITIONING standup is the active action; and startGame
\* changes nothing while the character does not exist.
C12_GameplayAfterStandup ==
    [][/\ (state # "GAMEPLAY" /\ state' = "GAMEPLAY")
            => \/ /\ state = "TRANSITIONING"
                  /\ oneShot = "standup"
                  /\ activeAction = "standup"
                  /\ lastFrame' = "finished"
               \/ /\ state = "SPLASH"
                  /\ "standup" \notin actions
       /\ state' = "TRANSITIONING"
            => (activeAction' = "standup" /\ oneShot' = "standup")
       /\ ~character => state' = state
      ]_vars

\* GAMEPLAY was entered in the frame that ended the standup clip.
C12_Witness ==
    /\ state = "GAMEPLAY"
    /\ lastFrame = "finished"
    /\ activeAction = "standup"

(***************************************************************************)
(* ItemManager                                                             *)
(***************************************************************************)
\* The keys of ITEM_CONFIG.
ItemConfigKeys == {"beer"}

\* ITEM_CONFIG[key].model
ItemModel(key) == "beer.glb"

\* obj.props?.itemType || 'beer'
ItemTypeKey(obj) ==
    IF "props" \in DOMAIN obj THEN obj.props.itemType ELSE "beer"

\* levelData.objects.filter(obj => obj.type === 'item')
ItemObjects(ld) == SelectSeq(ld.objects, LAMBDA o : o.type = "item")

\* loadItems lines 37-77: the entry pushed to this.items for an object.
\* y is mesh.position.y; elapsed is the time since collectItem, in ms.
SpawnItem(obj, tileSize) ==
    [id      |-> obj.id,
     type    |-> ItemTypeKey(obj),
     base    |-> <<obj.x * tileSize * Milli, obj.h * Milli,
                   obj.y * tileSize * Milli>>,
     y       |-> obj.h * Milli,
     removed |-> FALSE,
     elapsed |-> 0]

\* The loop of loadItems from the object at the head of queue, run until
\* it ends or awaits a model that is not in the cache: <<the objects left,
\* the entries pushed>>.
RECURSIVE LoadLoop(_, _, _)
LoadLoop(queue, cache, tileSize) ==
    IF queue = <<>> THEN <<<<>>, <<>>>>
    ELSE LET obj == Head(queue)
         IN  IF ItemTypeKey(obj) \notin ItemConfigKeys
             THEN LoadLoop(Tail(queue), cache, tileSize)
             ELSE IF ItemModel(ItemTypeKey(obj)) \in cache
                  THEN LET rest == LoadLoop(Tail(queue), cache, tileSize)
                       IN  <<rest[1], <<SpawnItem(obj, tileSize)>> \o rest[2]>>
                  ELSE <<queue, <<>>>>

\* LevelA with a second beer one unit above the ground and an object of an
\* item type that ITEM_CONFIG does not have.
LevelItems ==
    [LevelA EXCEPT !.objects =
        <<Obj("beer1", "item", 1, 0, 0),
          Obj("start", "spawn", 0, 0, 0),
          [id |-> "coin1", type |-> "item", x |-> 0, y |-> 1, h |-> 0,
           props |-> [itemType |-> "coin"]],
          Obj("beer2", "item", 2, 0, 1)>>]

ItemLevels == {LevelA, LevelItems}

\* loadItems(levelData) up to its first await of a model load, or to its
\* end.
LoadItems(ld) ==
    /\ itPc = "idle"
    /\ LET r == LoadLoop(ItemObjects(ld), modelCache, ld.meta.tileSize)
       IN  /\ items' = items \o r[2]
           /\ sceneItems' = sceneItems \cup {r[2][i].id : i \in DOMAIN r[2]}
           /\ itQueue' = [tileSize |-> ld.meta.tileSize, objs |-> r[1]]
           /\ itPc' = IF r[1] = <<>> THEN "done" ELSE "loading"
    /\ UNCHANGED <<modelCache, collects, itemPlayer, gameVars, inputVars,
                   levelVars, charVars, lastFrame, enemyVars, uiVars>>

\* getOrLoadModel lines 86-105: loader.loadAsync settles.  The model is
\* cached and the loop goes on, or the rejection passes through
\* getOrLoadModel and loadItems, which have no catch.
ItemModelSettle(ok) ==
    /\ itPc = "loading"
    /\ IF ok
       THEN LET cache == modelCache
                            \cup {ItemModel(ItemTypeKey(Head(itQueue.objs)))}
                r     == LoadLoop(itQueue.objs, cache, itQueue.tileSize)
            IN  /\ modelCache' = cache
                /\ items' = items \o r[2]
                /\ sceneItems' = sceneItems \cup {r[2][i].id : i \in DOMAIN r[2]}
                /\ itQueue' = [itQueue EXCEPT !.objs = r[1]]
                /\ itPc' = IF r[1] = <<>> THEN "done" ELSE "loading"
       ELSE /\ itPc' = "rejected"
            /\ UNCHANGED <<modelCache, items, sceneItems, itQueue>>
    /\ UNCHANGED <<collects, itemPlayer, gameVars, inputVars, levelVars,
                   charVars, lastFrame, enemyVars, uiVars>>

\* Pickup radius in Milli.
PickupDist == (11 * Milli) \div 10

\* playerPosition.distanceTo(q) < 1.1
Near(p, q) ==
    (p[1] - q[1]) * (p[1] - q[1]) + (p[2] - q[2]) * (p[2] - q[2])
        + (p[3] - q[3]) * (p[3] - q[3]) < PickupDist * PickupDist

\* update, the body of the loop for one entry with the float offset f.
UpdateItem(it, p, f) ==
    IF it.removed THEN it
    ELSE [it EXCEPT !.y = it.base[2] + f,
                    !.removed = Near(p, <<it.base[1], it.base[2] + f, it.base[3]>>)]

\* The ids update passes to collectItem: the loop runs from the last
\* entry to the first.
RECURSIVE Collected(_, _, _, _)
Collected(its, p, f, i) ==
    IF i = 0 THEN <<>>
    ELSE (IF ~its[i].removed /\ UpdateItem(its[i], p, f).removed
          THEN <<its[i].id>> ELSE <<>>) \o Collected(its, p, f, i - 1)

\* update that does not look at the removed flag.
MutItemsUpdate_NoRemovedCheck(dt, p, f) ==
    /\ items # <<>>
    /\ items' = [i \in DOMAIN items |->
                    UpdateItem([items[i] EXCEPT !.removed = FALSE], p, f)]
    /\ collects' = collects \o
          Collected([i \in DOMAIN items |-> [items[i] EXCEPT !.removed = FALSE]],
                    p, f, Len(items))
    /\ itemPlayer' = p
    /\ UNCHANGED <<itPc, itQueue, modelCache, sceneItems, gameVars, inputVars,
                   levelVars, charVars, lastFrame, enemyVars, uiVars>>

\* ItemManager.update(dt, playerPosition) at a time when the float offset
\* sin(time * floatSpeed) * floatAmplitude is f.  collectItem sets the
\* removed flag and runs the first step of its animation, at progress 0.
ItemsUpdate(dt, p, f) ==
    /\ items # <<>>
    /\ items' = [i \in DOMAIN items |-> UpdateItem(items[i], p, f)]
    /\ collects' = collects \o Collected(items, p, f, Len(items))
    /\ itemPlayer' = p
    /\ UNCHANGED <<itPc, itQueue, modelCache, sceneItems, gameVars, inputVars,
                   levelVars, charVars, lastFrame, enemyVars, uiVars>>

\* Duration of the collect animation in ms.
CollectDuration == (3 * Milli) \div 10

\* animateWithDelta that ends with this.items.shift() for the splice at
\* indexOf(item).
MutShrinkFrame_RemoveFirst(i, dt) ==
    /\ i \in DOMAIN items
    /\ items[i].removed
    /\ IF items[i].elapsed + dt >= CollectDuration
       THEN /\ sceneItems' = sceneItems \ {items[i].id}
            /\ items' = Tail(items)
       ELSE /\ items' = [items EXCEPT ![i].elapsed = @ + dt,
                                      ![i].y = @ + 5 * dt]
            /\ UNCHANGED sceneItems
    /\ UNCHANGED <<itPc, itQueue, modelCache, collects, itemPlayer, gameVars,
                   inputVars, levelVars, charVars, lastFrame, enemyVars,
                   uiVars>>

\* collectItem, animateWithDelta as the animation frame callback dt ms
\* after its last run, for the entry at index i.
ShrinkFrame(i, dt) ==
    /\ i \in DOMAIN items
    /\ items[i].removed
    /\ IF items[i].elapsed + dt >= CollectDuration
       THEN /\ sceneItems' = sceneItems \ {items[i].id}
            /\ items' = SubSeq(items, 1, i - 1) \o SubSeq(items, i + 1, Len(items))
       ELSE /\ items' = [items EXCEPT ![i].elapsed = @ + dt,
                                      ![i].y = @ + 5 * dt]
            /\ UNCHANGED sceneItems
    /\ UNCHANGED <<itPc, itQueue, modelCache, collects, itemPlayer, gameVars,
                   inputVars, levelVars, charVars, lastFrame, enemyVars,
                   uiVars>>

\* Where the player stands when update is called.
PlayerSpots ==
    {<<0, 0, 0>>, <<1000, 0, 0>>, <<2000, 0, 0>>, <<2100, 0, 0>>, <<3500, 0, 0>>}

\* Values of the float offset in Milli (floatAmplitude is 0.1).
FloatOffsets == {-100, 0, 100}

ShrinkDeltas == {100, 250}

ItemsNext ==
    \/ \E ld \in ItemLevels : LoadItems(ld)
    \/ \E ok \in BOOLEAN : ItemModelSettle(ok)
    \/ \E d \in Deltas, p \in PlayerSpots, f \in FloatOffsets : ItemsUpdate(d, p, f)
    \/ \E i \in 1..Len(items), d \in ShrinkDeltas : ShrinkFrame(i, d)

SpecItems == Init /\ [][ItemsNext]_vars

\* The position of the mesh of an entry of this.items.
ItemPos(it) == <<it.base[1], it.y, it.base[3]>>

\* C16: update passes an item to collectItem only when the player is less
\* than 1.1 from the current position of its mesh, no item is passed to
\* collectItem twice, and update leaves an entry whose removed flag is set
\* as it is.
C16_PickupOnce ==
    [][/\ \A k \in (Len(collects) + 1)..Len(collects') :
             \E i \in DOMAIN items, j \in DOMAIN items' :
                 /\ items[i].id = collects'[k]
                 /\ items'[j].id = collects'[k]
                 /\ ~items[i].removed
                 /\ items'[j].removed
                 /\ Near(itemPlayer', ItemPos(items'[j]))
       /\ \A i \in DOMAIN items, j \in DOMAIN items' :
             (items[i].id = items'[j].id /\ ~items[i].removed
                 /\ items'[j].removed)
               => Near(itemPlayer', ItemPos(items'[j]))
       /\ \A k, l \in DOMAIN collects' : collects'[k] = collects'[l] => k = l
       /\ (\E d \in Deltas, p \in PlayerSpots, f \in FloatOffsets :
               ItemsUpdate(d, p, f))
            => \A i \in DOMAIN items : items[i].removed => items'[i] = items[i]
      ]_vars

\* beer1 was collected by one update and beer2 by a later one; beer1 is
\* still in this.items, and the last update was called with the player
\* within the pickup distance of it.
C16_Witness ==
    /\ collects = <<"beer1", "beer2">>
    /\ \E i \in DOMAIN items :
          /\ items[i].id = "beer1"
          /\ items[i].removed
          /\ Near(itemPlayer, ItemPos(items[i]))

\* C17: a model load that fails is caught: loadItems does not reject, and
\* goes on to the items that follow.
C17_FailedLoadCaught == itPc # "rejected"

(***************************************************************************)
(* Enemy                                                                   *)
(***************************************************************************)
\* floor of the square root of n by bisection of lo..hi
RECURSIVE SqrtSearch(_, _, _)
SqrtSearch(n, lo, hi) ==
    IF lo >= hi THEN lo
    ELSE LET mid == (lo + hi + 1) \div 2
         IN  IF mid * mid <= n THEN SqrtSearch(n, mid, hi)
             ELSE SqrtSearch(n, lo, mid - 1)

\* a.distanceTo(b), squared
Dist2(a, b) ==
    (a[1] - b[1]) * (a[1] - b[1]) + (a[2] - b[2]) * (a[2] - b[2])
        + (a[3] - b[3]) * (a[3] - b[3])

\* a.distanceTo(b), rounded down
Dist(a, b) == SqrtSearch(Dist2(a, b), 0, 40000)

\* c / len rounded towards 0, in thousandths
UnitComponent(c, len) == Signed(c, (Abs(c) * 1000) \div len)

\* The forward vector after a turn to atan2(d.x, d.z): d without its y,
\* normalised; atan2(0, 0) is 0.
Heading(d) ==
    LET len == SqrtSearch(d[1] * d[1] + d[3] * d[3], 0, 40000)
    IN  IF len = 0 THEN <<0, 1000>>
        ELSE <<UnitComponent(d[1], len), UnitComponent(d[3], len)>>

\* Enemy.fadeToAction on the record e.
EnemyFade(e, name) ==
    [e EXCEPT !.activeAction = FadeToAction(e.actions, e.activeAction, name)]

SightRange == 10 * Milli

\* intersects.length = 0: the sight ray meets no obstacle before the player.
NoHit == 0 - 1

\* checkSight without its ray: the player has a mesh, is within sightRange
\* and within half the field of view (120 degrees: the cosine of the angle
\* between forward and the direction to the player is at least 1/2;
\* angleTo gives 90 degrees for a zero vector).
MutInView_NoRange(e) ==
    /\ mesh
    /\ LET d   == <<position[1] - e.position[1], position[2] - e.position[2],
                    position[3] - e.position[3]>>
           len == Dist(e.position, position)
       IN  /\ len > 0
           /\ 2 * (e.rotation[1] * d[1] + e.rotation[2] * d[3]) >= 1000 * len

InView(e) ==
    /\ mesh
    /\ Dist2(e.position, position) <= SightRange * SightRange
    /\ LET d   == <<position[1] - e.position[1], position[2] - e.position[2],
                    position[3] - e.position[3]>>
           len == Dist(e.position, position)
       IN  /\ len > 0
           /\ 2 * (e.rotation[1] * d[1] + e.rotation[2] * d[3]) >= 1000 * len

\* checkSight, with hit the distance of intersects[0] from the enemy (NoHit
\* without intersection): the ray is blocked by a hit more than 0.5 before
\* the player.
CheckSight(e, hit) ==
    /\ InView(e)
    /\ ~(hit # NoHit /\ hit < Dist(e.position, position) - 500)

\* The random draws of one update: wait tells Math.random() < 0.3, waitTime
\* is 2 + Math.random() * 18 in ms, pick is the offset of the first walkable
\* candidate of the ten tries, or NoPos when none of them was walkable.
WaitTimes == {2000}

PatrolOffsets == {<<-2100, 0>>, <<2100, 0>>, <<2000, 1000>>}

Draws ==
    [wait : BOOLEAN, waitTime : WaitTimes, pick : PatrolOffsets \cup {NoPos}]

\* The centre of the candidates of patrolLogic.
PatrolCenter(e, isSearch) ==
    IF isSearch \/ e.startPosition = NoPos THEN e.position ELSE e.startPosition

\* The draw rnd.pick can be the outcome of the ten tries of patrolLogic.
PickPossible(e, isSearch, pick) ==
    LET c == PatrolCenter(e, isSearch)
    IN  IF pick = NoPos
        THEN \E o \in PatrolOffsets :
                 ~IsWalkable(levelData, c[1] + o[1], c[3] + o[2])
        ELSE IsWalkable(levelData, c[1] + pick[1], c[3] + pick[2])

\* patrolLogic(isSearch)
PatrolLogic(e, isSearch, rnd) ==
    IF ~isSearch /\ rnd.wait
    THEN [e EXCEPT !.subState = "WAITING", !.waitTimer = 0,
                   !.stateTimer = rnd.waitTime, !.targetPosition = NoPos]
    ELSE IF e.targetPosition = NoPos
              \/ Dist2(e.position, e.targetPosition) < 500 * 500
         THEN IF rnd.pick # NoPos
              THEN LET c == PatrolCenter(e, isSearch)
                   IN  [e EXCEPT !.targetPosition =
                                     <<c[1] + rnd.pick[1], 0, c[3] + rnd.pick[2]>>,
                                 !.subState = "WALKING"]
              ELSE [e EXCEPT !.subState = "WAITING", !.waitTimer = 0,
                             !.stateTimer = 2000]
         ELSE e

\* The search time in ms set when the player is lost.
SearchTime == 5 * Milli

\* updateState, case PATROL, with a wait that does not count the frames.
MutPatrolState_NoWaitCount(e, delta, canSee, rnd) ==
    IF canSee THEN <<[e EXCEPT !.state = "CHASE"], FALSE>>
    ELSE IF e.subState = "WALKING"
         THEN IF e.targetPosition = NoPos
              THEN <<PatrolLogic(e, FALSE, rnd), FALSE>>
              ELSE <<e, FALSE>>
         ELSE LET w  == e.waitTimer
                  e1 == EnemyFade([e EXCEPT !.waitTimer = w],
                                  IF w > 15000 THEN "bored" ELSE "idle")
              IN  IF w > e.stateTimer
                  THEN <<[e1 EXCEPT !.subState = "WALKING",
                                    !.targetPosition = NoPos], FALSE>>
                  ELSE <<e1, FALSE>>

\* updateState, case PATROL
PatrolState(e, delta, canSee, rnd) ==
    IF canSee THEN <<[e EXCEPT !.state = "CHASE"], FALSE>>
    ELSE IF e.subState = "WALKING"
         THEN IF e.targetPosition = NoPos
              THEN <<PatrolLogic(e, FALSE, rnd), FALSE>>
              ELSE <<e, FALSE>>
         ELSE LET w  == e.waitTimer + delta
                  e1 == EnemyFade([e EXCEPT !.waitTimer = w],
                                  IF w > 15000 THEN "bored" ELSE "idle")
              IN  IF w > e.stateTimer
                  THEN <<[e1 EXCEPT !.subState = "WALKING",
                                    !.targetPosition = NoPos], FALSE>>
                  ELSE <<e1, FALSE>>

\* updateState, case CHASE, giving up the chase for the patrol when the
\* player is not seen.
MutChaseState_ToPatrol(e, canSee) ==
    IF canSee
    THEN LET e1 == [e EXCEPT !.lastSeenPosition = position,
                             !.targetPosition = position]
         IN  IF Dist2(e.position, position) < Milli * Milli
             THEN <<[e1 EXCEPT !.state = "IDLE"], TRUE>>
             ELSE <<e1, FALSE>>
    ELSE <<[e EXCEPT !.state = "PATROL", !.stateTimer = SearchTime], FALSE>>

\* updateState, case CHASE, staying in CHASE after the call of gameOver.
MutChaseState_NoIdle(e, canSee) ==
    IF canSee
    THEN LET e1 == [e EXCEPT !.lastSeenPosition = position,
                             !.targetPosition = position]
         IN  IF Dist2(e.position, position) < Milli * Milli
             THEN <<e1, TRUE>>
             ELSE <<e1, FALSE>>
    ELSE <<[e EXCEPT !.state = "SEARCH", !.stateTimer = SearchTime], FALSE>>

\* updateState, case CHASE
ChaseState(e, canSee) ==
    IF canSee
    THEN LET e1 == [e EXCEPT !.lastSeenPosition = position,
                             !.targetPosition = position]
         IN  IF Dist2(e.position, position) < Milli * Milli
             THEN <<[e1 EXCEPT !.state = "IDLE"], TRUE>>
             ELSE <<e1, FALSE>>
    ELSE <<[e EXCEPT !.state = "SEARCH", !.stateTimer = SearchTime], FALSE>>

\* updateState, case SEARCH
SearchState(e, delta, canSee, rnd) ==
    LET e1 == [e EXCEPT !.stateTimer = e.stateTimer - delta]
    IN  IF canSee THEN <<[e1 EXCEPT !.state = "CHASE"], FALSE>>
        ELSE IF e1.stateTimer <= 0
             THEN <<[e1 EXCEPT !.state = "PATROL", !.subState = "WALKING",
                               !.targetPosition = NoPos], FALSE>>
             ELSE IF e1.lastSeenPosition # NoPos
                  THEN IF Dist2(e1.position, e1.lastSeenPosition) < 500 * 500
                       THEN <<[e1 EXCEPT !.lastSeenPosition = NoPos], FALSE>>
                       ELSE <<[e1 EXCEPT !.targetPosition =
                                             e1.lastSeenPosition], FALSE>>
                  ELSE <<PatrolLogic(e1, TRUE, rnd), FALSE>>

\* updateState(delta): <<the enemy afterwards, whether game.gameOver() was
\* called>>.  canSee is the result of checkSight.
UpdateState(e, delta, canSee, rnd) ==
    CASE e.state = "PATROL" -> PatrolState(e, delta, canSee, rnd)
      [] e.state = "CHASE"  -> ChaseState(e, canSee)
      [] e.state = "SEARCH" -> SearchState(e, delta, canSee, rnd)
      [] OTHER -> <<e, FALSE>>

WalkSpeed == (7 * Milli) \div 2

RunSpeed == (15 * Milli) \div 2

\* updateMovement that slides along X without asking isWalkable.
MutUpdateMovement_SlideUnchecked(e, delta) ==
    IF e.targetPosition = NoPos
          \/ (e.subState = "WAITING" /\ e.state = "PATROL")
    THEN IF e.state # "PATROL" \/ e.subState # "WAITING"
         THEN EnemyFade(e, "idle") ELSE e
    ELSE IF Dist2(e.targetPosition, e.position) > 100 * 100
         THEN LET isRunning == e.state = "CHASE"
                  speed     == IF isRunning THEN RunSpeed ELSE WalkSpeed
                  toTarget  == <<e.targetPosition[1] - e.position[1],
                                 e.targetPosition[2] - e.position[2],
                                 e.targetPosition[3] - e.position[3]>>
                  rot       == Heading(toTarget)
                  len       == (speed * delta) \div 1000
                  dx        == Signed(rot[1], (Abs(rot[1]) * len) \div 1000)
                  dz        == Signed(rot[2], (Abs(rot[2]) * len) \div 1000)
                  p         == e.position
                  e1        == [e EXCEPT !.movementSpeed = speed, !.rotation = rot]
                  e2        ==
                      IF IsWalkable(levelData, p[1] + dx, p[3] + dz)
                      THEN [e1 EXCEPT !.position = <<p[1] + dx, p[2], p[3] + dz>>]
                      ELSE IF TRUE
                           THEN [e1 EXCEPT !.position = <<p[1] + dx, p[2], p[3]>>]
                           ELSE IF IsWalkable(levelData, p[1], p[3] + dz)
                                THEN [e1 EXCEPT !.position = <<p[1], p[2], p[3] + dz>>]
                                ELSE IF e.state = "PATROL"
                                     THEN [e1 EXCEPT !.targetPosition = NoPos]
                                     ELSE e1
              IN  EnemyFade(e2, IF isRunning THEN "run" ELSE "walk")
         ELSE [e EXCEPT !.targetPosition = NoPos]

\* updateMovement(delta) for a frame with delta * 5 = 1, in which lerp
\* gives the target speed and the turn by rotDiff * delta * 5 ends at
\* targetRot.
UpdateMovement(e, delta) ==
    IF e.targetPosition = NoPos
          \/ (e.subState = "WAITING" /\ e.state = "PATROL")
    THEN IF e.state # "PATROL" \/ e.subState # "WAITING"
         THEN EnemyFade(e, "idle") ELSE e
    ELSE IF Dist2(e.targetPosition, e.position) > 100 * 100
         THEN LET isRunning == e.state = "CHASE"
                  speed     == IF isRunning THEN RunSpeed ELSE WalkSpeed
                  toTarget  == <<e.targetPosition[1] - e.position[1],
                                 e.targetPosition[2] - e.position[2],
                                 e.targetPosition[3] - e.position[3]>>
                  rot       == Heading(toTarget)
                  len       == (speed * delta) \div 1000
                  dx        == Signed(rot[1], (Abs(rot[1]) * len) \div 1000)
                  dz        == Signed(rot[2], (Abs(rot[2]) * len) \div 1000)
                  p         == e.position
                  e1        == [e EXCEPT !.movementSpeed = speed, !.rotation = rot]
                  e2        ==
                      IF IsWalkable(levelData, p[1] + dx, p[3] + dz)
                      THEN [e1 EXCEPT !.position = <<p[1] + dx, p[2], p[3] + dz>>]
                      ELSE IF IsWalkable(levelData, p[1] + dx, p[3])
                           THEN [e1 EXCEPT !.position = <<p[1] + dx, p[2], p[3]>>]
                           ELSE IF IsWalkable(levelData, p[1], p[3] + dz)
                                THEN [e1 EXCEPT !.position = <<p[1], p[2], p[3] + dz>>]
                                ELSE IF e.state = "PATROL"
                                     THEN [e1 EXCEPT !.targetPosition = NoPos]
                                     ELSE e1
              IN  EnemyFade(e2, IF isRunning THEN "run" ELSE "walk")
         ELSE [e EXCEPT !.targetPosition = NoPos]

\* Enemy.load() is called on the placed enemy.
EnemyLoad ==
    /\ enemy.pc = "idle"
    /\ enemy.startPosition # NoPos
    /\ enemy' = [enemy EXCEPT !.pc = "model"]
    /\ UNCHANGED <<gameOvers, gameVars, inputVars, levelVars, charVars,
                   lastFrame, itemVars, uiVars>>

\* load lines 228-254: the model load settles; a failure is caught.
EnemyModelSettle(ok) ==
    /\ enemy.pc = "model"
    /\ enemy' = IF ok
                THEN [enemy EXCEPT !.pc = "anims", !.mesh = TRUE, !.mixer = TRUE]
                ELSE [enemy EXCEPT !.pc = "done"]
    /\ UNCHANGED <<gameOvers, gameVars, inputVars, levelVars, charVars,
                   lastFrame, itemVars, uiVars>>

\* Sets of enemy clips for which fbx.animations[0] exists.
EnemyClipSets == {{"walk", "run", "idle", "bored"}}

\* load lines 256-283: the four animation loads settle; a failure is caught.
EnemyAnimsSettle(ok, clips) ==
    /\ enemy.pc = "anims"
    /\ enemy' = IF ok
                THEN EnemyFade([enemy EXCEPT !.pc = "done", !.actions = clips],
                               "idle")
                ELSE [enemy EXCEPT !.pc = "done"]
    /\ UNCHANGED <<gameOvers, gameVars, inputVars, levelVars, charVars,
                   lastFrame, itemVars, uiVars>>

\* setPosition(pos), called once to place the enemy before it is loaded.
EnemySetPosition(pos) ==
    /\ enemy.startPosition = NoPos
    /\ enemy.pc = "idle"
    /\ enemy' = [enemy EXCEPT !.position = pos, !.startPosition = pos]
    /\ UNCHANGED <<gameOvers, gameVars, inputVars, levelVars, charVars,
                   lastFrame, itemVars, uiVars>>

\* This update reaches patrolLogic, which makes the random draws.
UsesDraws(e, delta, canSee) ==
    /\ ~canSee
    /\ \/ e.state = "PATROL" /\ e.subState = "WALKING" /\ e.targetPosition = NoPos
       \/ e.state = "SEARCH" /\ e.stateTimer - delta > 0
             /\ e.lastSeenPosition = NoPos

\* The draws an update can make: those that can come out of patrolLogic
\* when it is reached, one arbitrary value when it is not.
DrawsFor(e, delta, canSee) ==
    IF UsesDraws(e, delta, canSee)
    THEN {rnd \in Draws : PickPossible(e, e.state = "SEARCH", rnd.pick)}
    ELSE {[wait |-> FALSE, waitTime |-> 2000, pick |-> NoPos]}

\* Where the sight ray meets its first obstacle: 0.1 from the enemy or 0.2
\* before the player.
RayHits(len) == {h \in {100, len - 200} : h >= 0 /\ h <= len}

\* The outcomes of the sight ray that matter: it is cast only for a
\* player in range and in the field of view, up to the player.
RayOutcomes(e) ==
    IF InView(e) THEN {NoHit} \cup RayHits(Dist(e.position, position))
    ELSE {NoHit}

\* Enemy.update(delta).  hit is the distance at which the sight ray meets
\* its first obstacle, or NoHit; rnd holds the random draws.
EnemyUpdate(delta, hit, rnd) ==
    /\ UsesDraws(enemy, delta, CheckSight(enemy, hit))
           => PickPossible(enemy, enemy.state = "SEARCH", rnd.pick)
    /\ IF ~enemy.mesh \/ ~enemy.mixer \/ ~character
       THEN UNCHANGED <<enemy, gameOvers>>
       ELSE LET r == UpdateState(enemy, delta, CheckSight(enemy, hit), rnd)
            IN  /\ enemy' = UpdateMovement(r[1], delta)
                /\ gameOvers' = IF r[2] THEN gameOvers + 1 ELSE gameOvers
    /\ UNCHANGED <<gameVars, inputVars, levelVars, charVars, lastFrame,
                   itemVars, uiVars>>

\* A corridor of 4 x 1 tiles of size 1 with the player spawn at its far
\* end.
LevelE ==
    [meta      |-> [tileSize |-> 1, width |-> 4, height |-> 1],
     tilesets  |-> (S_floor :> S_primBox),
     defaults  |-> [ground |-> [tile |-> S_floor, rot |-> 0, h |-> 0]],
     overrides |-> <<>>,
     layers    |-> <<>>,
     objects   |-> <<Obj("start", "spawn", 3, 0, 0)>>]

\* Where setPosition places the enemy.
EnemySpawns == {<<0, 0, 0>>}

\* Frame times of the enemy in ms: delta * 5 = 1.
EnemyDeltas == {200}

\* The game in GAMEPLAY on the level ld, as StartGame, FetchSettle("ok", ld),
\* CharModelSettle(ok) and, after a loaded model, CharAnimsSettle(TRUE,
\* AllAnims) leave it, with the player at p and the enemy e.
GameplayWith(ld, ok, p, e) ==
    /\ state = "GAMEPLAY"
    /\ inputEnabled = TRUE
    /\ isTouching = FALSE
    /\ inputVector = <<0, 0>>
    /\ joystickShown = FALSE
    /\ viewSize = 15
    /\ offset = IsoOffset
    /\ lmPc = "done"
    /\ fetchOutcome = "ok"
    /\ levelData = ld
    /\ pending = {}
    /\ models = <<>>
    /\ tiles = BuildLevel(ld, <<>>)
    /\ sceneClears = 1
    /\ character = TRUE
    /\ chPc = "done"
    /\ mesh = ok
    /\ mixer = ok
    /\ actions = IF ok THEN AllAnims ELSE {}
    /\ activeAction = IF ok THEN "idle" ELSE NoAction
    /\ position = p
    /\ idleTimer = 0
    /\ oneShot = NoAction
    /\ lastFrame = "none"
    /\ itPc = "idle"
    /\ itQueue = [tileSize |-> 1, objs |-> <<>>]
    /\ modelCache = {}
    /\ items = <<>>
    /\ sceneItems = {}
    /\ collects = <<>>
    /\ itemPlayer = <<0, 0, 0>>
    /\ enemy = e
    /\ gameOvers = 0
    /\ ui = [InitUi EXCEPT !.menu = MenuTimer(MenuHide(@))]

\* The corridor level just entered, with an enemy just constructed.
EnemyInit == GameplayWith(LevelE, TRUE, GetPlayerSpawn(LevelE), NewEnemy)

\* One enemy against a player that stays at the spawn point.
EnemyNext ==
    \/ EnemyLoad
    \/ \E ok \in BOOLEAN : EnemyModelSettle(ok)
    \/ \E ok \in BOOLEAN, clips \in EnemyClipSets : EnemyAnimsSettle(ok, clips)
    \/ \E pos \in EnemySpawns : EnemySetPosition(pos)
    \/ \E d \in EnemyDeltas :
          \E b \in RayOutcomes(enemy) :
              \E rnd \in DrawsFor(enemy, d, CheckSight(enemy, b)) :
                  EnemyUpdate(d, b, rnd)

SpecEnemy == EnemyInit /\ [][EnemyNext]_vars


\* The state changes updateState makes.
C15_Transitions ==
    {<<"PATROL", "CHASE">>, <<"SEARCH", "CHASE">>, <<"CHASE", "SEARCH">>,
     <<"SEARCH", "PATROL">>, <<"CHASE", "IDLE">>}

\* C15: the enemy's state changes only PATROL -> CHASE and SEARCH -> CHASE
\* (with the player in range and in the field of view), CHASE -> SEARCH,
\* SEARCH -> PATROL (with the search timer run out in this frame) and
\* CHASE -> IDLE (with the player in view at a distance under 1.0, and
\* gameOver called); so SEARCH is entered only from CHASE, and PATROL never
\* goes directly to SEARCH or IDLE.
C15_StateLoop ==
    [][enemy'.state # enemy.state =>
          /\ <<enemy.state, enemy'.state>> \in C15_Transitions
          /\ enemy'.state = "CHASE" => InView(enemy)
          /\ enemy'.state = "PATROL" =>
                 \E d \in EnemyDeltas : enemy.stateTimer - d <= 0
          /\ enemy'.state = "IDLE" =>
                 /\ InView(enemy)
                 /\ Dist2(enemy.position, position) < Milli * Milli
                 /\ gameOvers' = gameOvers + 1]_vars

\* The enemy has caught the player after losing sight of it for one frame
\* of search: PATROL -> CHASE -> SEARCH -> CHASE -> IDLE.
C15_Witness ==
    /\ enemy.state = "IDLE"
    /\ gameOvers = 1
    /\ enemy.stateTimer = SearchTime - 200

\* Some Enemy.update(d) makes this step.
EnemyFrame(d) ==
    \E b \in RayOutcomes(enemy) :
        \E rnd \in DrawsFor(enemy, d, CheckSight(enemy, b)) :
            EnemyUpdate(d, b, rnd)

\* C21: the search is bounded by its 5 s timer: in every update of a loaded
\* enemy that starts in SEARCH and does not see the player, the search
\* timer goes down by the frame time, and the enemy returns to PATROL
\* exactly when the timer has run out, whatever the search-target picks
\* give.
C21_SearchBounded ==
    [][\A d \in EnemyDeltas :
          (/\ enemy.state = "SEARCH"
           /\ enemy.mesh /\ enemy.mixer
           /\ EnemyFrame(d)
           /\ enemy'.state # "CHASE")
          => /\ enemy'.stateTimer = enemy.stateTimer - d
             /\ enemy'.state = "PATROL" <=> enemy.stateTimer - d <= 0]_vars

\* C22: in IDLE the enemy does nothing: once it is in IDLE no step changes
\* its state, its position or its rotation.
C22_IdleDoesNothing ==
    [][enemy.state = "IDLE" =>
          /\ enemy'.state = "IDLE"
          /\ enemy'.position = enemy.position
          /\ enemy'.rotation = enemy.rotation]_vars

\* C23: gameOver is called only by an update of an enemy in CHASE whose
\* sight ray is free, with the player in range, in the field of view and
\* closer than 1.0, and it is called once at most.
C23_GameOverOnce ==
    [][gameOvers' # gameOvers =>
          /\ gameOvers = 0
          /\ gameOvers' = 1
          /\ enemy.state = "CHASE"
          /\ InView(enemy)
          /\ Dist2(enemy.position, position) < Milli * Milli
          /\ \E d \in EnemyDeltas :
                \E rnd \in DrawsFor(enemy, d, TRUE) : EnemyUpdate(d, NoHit, rnd)]_vars

\* The player was caught, and the enemy has since walked on to the point
\* where it saw the player and dropped its target.
C23_Witness ==
    /\ gameOvers = 1
    /\ enemy.state = "IDLE"
    /\ enemy.targetPosition = NoPos
    /\ enemy.activeAction = "idle"

(***************************************************************************)
(* Enemy.checkSight over enumerated enemies and players                    *)
(***************************************************************************)
\* A corridor of 13 x 1 tiles of size 1.
LevelSight ==
    [meta      |-> [tileSize |-> 1, width |-> 13, height |-> 1],
     tilesets  |-> (S_floor :> S_primBox),
     defaults  |-> [ground |-> [tile |-> S_floor, rot |-> 0, h |-> 0]],
     overrides |-> <<>>,
     layers    |-> <<>>,
     objects   |-> <<Obj("start", "spawn", 12, 0, 0)>>]

\* Where the enemy and the player stand.
SightEnemySpots == {<<0, 0, 0>>, <<2000, 0, 0>>, <<11500, 0, 0>>}

SightPlayerSpots == {<<2000, 0, 0>>, <<12000, 0, 0>>}

\* Forward vectors of the enemy: along +x, -x and +z, and at 60 and about 66
\* degrees from +x.
SightHeadings ==
    {<<1000, 0>>, <<0 - 1000, 0>>, <<0, 1000>>, <<500, 866>>, <<400, 917>>}

\* Loaded enemies in PATROL without target, or at the start of a SEARCH.
SightEnemies ==
    {[NewEnemy EXCEPT !.pc = "done", !.mesh = TRUE, !.mixer = TRUE,
                      !.actions = {"walk", "run", "idle", "bored"},
                      !.activeAction = "idle",
                      !.position = q, !.startPosition = q, !.rotation = r,
                      !.state = st,
                      !.stateTimer = IF st = "SEARCH" THEN SearchTime ELSE 0] :
        q \in SightEnemySpots, r \in SightHeadings, st \in {"PATROL", "SEARCH"}}

SightInit ==
    \E ok \in BOOLEAN, p \in SightPlayerSpots, e \in SightEnemies :
        GameplayWith(LevelSight, ok, p, e)

\* One update of each of these enemies.
SightNext == \E d \in EnemyDeltas : enemy \in SightEnemies /\ EnemyFrame(d)

SpecSight == SightInit /\ [][SightNext]_vars

\* The step is an update in which the sight ray meets its first obstacle at
\* hit.
C24_UpdateWithHit(hit) ==
    \E d \in EnemyDeltas :
        \E rnd \in DrawsFor(enemy, d, CheckSight(enemy, hit)) :
            EnemyUpdate(d, hit, rnd)

\* The player is farther than sightRange, outside the 120 degree field of
\* view or without mesh.
C24_OutOfView ==
    \/ ~mesh
    \/ Dist2(enemy.position, position) > (10 * Milli) * (10 * Milli)
    \/ 2 * (enemy.rotation[1] * (position[1] - enemy.position[1])
              + enemy.rotation[2] * (position[3] - enemy.position[3]))
           < 1000 * Dist(enemy.position, position)
    \/ enemy.position = position

\* C24 as stated: no update takes the enemy into CHASE when the player is
\* out of view or behind an obstacle that is closer than the player, and
\* in such an update a patrolling enemy stays in PATROL.
C24_NoChaseUnseen ==
    [][\A hit \in RayOutcomes(enemy) :
          (/\ C24_UpdateWithHit(hit)
           /\ enemy.state # "CHASE"
           /\ \/ C24_OutOfView
              \/ hit # NoHit /\ hit < Dist(enemy.position, position))
          => /\ enemy'.state # "CHASE"
             /\ enemy.state = "PATROL" => enemy'.state = "PATROL"]_vars

\* C24 amended: the obstacle hides the player when the ray meets it more
\* than 0.5 before the player.
C24_NoChaseUnseenHalf ==
    [][\A hit \in RayOutcomes(enemy) :
          (/\ C24_UpdateWithHit(hit)
           /\ enemy.state # "CHASE"
           /\ \/ C24_OutOfView
              \/ hit # NoHit /\ hit < Dist(enemy.position, position) - 500)
          => /\ enemy'.state # "CHASE"
             /\ enemy.state = "PATROL" => enemy'.state = "PATROL"]_vars

\* A patrolling enemy that faces the player from 12 away, out of range, has
\* been updated and patrols on.
C24_Witness ==
    /\ enemy.state = "PATROL"
    /\ enemy.position[1] <= 700
    /\ enemy.rotation = <<1000, 0>>
    /\ enemy.targetPosition # NoPos
    /\ position = <<12000, 0, 0>>
    /\ mesh

(***************************************************************************)
(* Enemy movement in levels with walls                                     *)
(***************************************************************************)
\* A yard of 3 x 2 tiles of size 1 with a wall on the cell (wx, wy) and the
\* player spawn in the far corner.
LevelYard(wx, wy) ==
    [meta      |-> [tileSize |-> 1, width |-> 3, height |-> 2],
     tilesets  |-> (S_floor :> S_primBox),
     defaults  |-> [ground |-> [tile |-> S_floor, rot |-> 0, h |-> 0]],
     overrides |-> <<Cell(wx, wy, S_wall)>>,
     layers    |-> <<>>,
     objects   |-> <<Obj("start", "spawn", 2, 1, 0)>>]

YardLevels == {LevelYard(1, 0), LevelYard(1, 1)}

\* The corridor with a player to chase, or a yard with a player whose model
\* failed to load, and an enemy just constructed.
MoveInit ==
    \/ EnemyInit
    \/ \E ld \in YardLevels :
          GameplayWith(ld, FALSE, GetPlayerSpawn(ld), NewEnemy)

SpecMove == MoveInit /\ [][EnemyNext]_vars

\* patrolLogic picks a target in this step.
C25_Picks ==
    /\ enemy'.targetPosition # NoPos
    /\ enemy'.targetPosition # enemy.targetPosition
    /\ \/ enemy.state = "PATROL" /\ enemy'.state = "PATROL"
       \/ enemy.state = "SEARCH" /\ enemy'.state = "SEARCH"
             /\ enemy.lastSeenPosition = NoPos

\* C25: an update of an enemy on a walkable position leaves it on a
\* walkable position, and a target patrolLogic picks is walkable.
C25_StaysWalkable ==
    [][\A d \in EnemyDeltas :
          EnemyFrame(d) =>
              /\ IsWalkable(levelData, enemy.position[1], enemy.position[3])
                     => IsWalkable(levelData, enemy'.position[1],
                                   enemy'.position[3])
              /\ C25_Picks =>
                     IsWalkable(levelData, enemy'.targetPosition[1],
                                enemy'.targetPosition[3])]_vars

\* In the yard with the wall on (1, 0) the enemy heading for (2, 1) has
\* slid along Z past the wall.
C25_Witness ==
    /\ levelData = LevelYard(1, 0)
    /\ enemy.targetPosition = <<2000, 0, 1000>>
    /\ enemy.position[1] = 0
    /\ enemy.position[3] > 0

(***************************************************************************)
(* The waits of a patrolling enemy                                         *)
(***************************************************************************)
\* Wait times 2 + Math.random() * 18 in ms, up to nearly 20 s.
LongWaitTimes == {2000, 15100, 19900}

\* Frame times in ms.
WaitDeltas == {200, 300}

\* The draws of an update with the long wait times.
WaitDrawsFor(e, delta, canSee) ==
    IF UsesDraws(e, delta, canSee)
    THEN {rnd \in [wait : BOOLEAN, waitTime : LongWaitTimes,
                   pick : PatrolOffsets \cup {NoPos}] :
             PickPossible(e, e.state = "SEARCH", rnd.pick)}
    ELSE {[wait |-> FALSE, waitTime |-> 2000, pick |-> NoPos]}

\* The corridor with a player whose model failed to load, which no enemy
\* sees, and an enemy just constructed.
WaitInit == GameplayWith(LevelE, FALSE, GetPlayerSpawn(LevelE), NewEnemy)

\* The enemy patrols; frames of another length than 0.2 s come while it
\* waits, when updateMovement returns at once.
WaitNext ==
    \/ EnemyLoad
    \/ \E ok \in BOOLEAN : EnemyModelSettle(ok)
    \/ \E ok \in BOOLEAN, clips \in EnemyClipSets : EnemyAnimsSettle(ok, clips)
    \/ \E pos \in EnemySpawns : EnemySetPosition(pos)
    \/ \E d \in WaitDeltas :
          /\ d \in EnemyDeltas
                \/ (enemy.state = "PATROL" /\ enemy.subState = "WAITING")
          /\ \E rnd \in WaitDrawsFor(enemy, d, FALSE) :
                EnemyUpdate(d, NoHit, rnd)

SpecWait == WaitInit /\ [][WaitNext]_vars

\* The step is an update of a loaded enemy that waits in PATROL.
C26_WaitFrame(d) ==
    /\ enemy.state = "PATROL" /\ enemy.subState = "WAITING"
    /\ enemy.mesh /\ enemy.mixer
    /\ \E rnd \in WaitDrawsFor(enemy, d, FALSE) : EnemyUpdate(d, NoHit, rnd)

\* C26 as stated: a wait of the patrolling enemy is over when 20 s of frame
\* time have accumulated, and the enemy keeps its position while it waits.
C26_WaitEndsIn20 ==
    [][\A d \in WaitDeltas :
          C26_WaitFrame(d) =>
              /\ enemy'.position = enemy.position
              /\ enemy'.waitTimer = enemy.waitTimer + d
              /\ enemy'.waitTimer <= 20 * Milli
              /\ enemy'.state = "PATROL"]_vars

\* C26 amended: the wait is over in the first update after which the
\* accumulated frame time exceeds the drawn wait time, which is below
\* 20 s, so the time accumulated before that update is below 20 s; the
\* enemy keeps its position while it waits.
C26_WaitEndsAfterWaitTime ==
    [][\A d \in WaitDeltas :
          C26_WaitFrame(d) =>
              /\ enemy'.position = enemy.position
              /\ enemy'.waitTimer = enemy.waitTimer + d
              /\ enemy.waitTimer <= enemy.stateTimer
              /\ enemy.stateTimer < 20 * Milli
              /\ enemy'.stateTimer = enemy.stateTimer
              /\ enemy'.subState = "WALKING"
                     <=> enemy'.waitTimer > enemy.stateTimer
              /\ enemy'.state = "PATROL"]_vars

\* A wait of 19.9 s has just ended, after the bored animation.
C26_Witness ==
    /\ enemy.state = "PATROL"
    /\ enemy.subState = "WALKING"
    /\ enemy.stateTimer = 19900
    /\ enemy.waitTimer > 19900
    /\ enemy.activeAction = "idle"

\* C27: however often the start button fires, Game.loadLevel runs once: the
\* scene is cleared once, by the press made in SPLASH, the level load is
\* started once, and the one Character is created once, after that clear.
C27_StartOnce ==
    /\ sceneClears = 0 /\ lmPc = "idle" /\ ~character
    /\ [][/\ sceneClears' # sceneClears =>
                state = "SPLASH" /\ sceneClears = 0 /\ sceneClears' = 1
          /\ (lmPc' = "fetching" /\ lmPc # "fetching") =>
                lmPc = "idle" /\ sceneClears' = 1
          /\ character' # character =>
                ~character /\ chPc = "idle" /\ sceneClears = 1
          /\ (chPc' = "model" /\ chPc # "model") => ~character]_vars

\* The game has started, after one clear of the scene, one level load and
\* one character, and the button can fire again.
C27_Witness ==
    /\ state = "GAMEPLAY"
    /\ sceneClears = 1
    /\ lmPc = "done"
    /\ character /\ chPc = "done"
    /\ ENABLED StartGame

(***************************************************************************)
(* ItemManager with animation frames that keep firing                      *)
(***************************************************************************)
\* requestAnimationFrame runs a callback that was requested.
FairSpecItems ==
    /\ SpecItems
    /\ WF_vars(\E i \in 1..Len(items), d \in ShrinkDeltas : ShrinkFrame(i, d))

\* The ids of the entries of this.items.
C28_ItemIds(its) == {its[i].id : i \in DOMAIN its}

\* its without its entry at index i.
C28_Without(its, i) == SubSeq(its, 1, i - 1) \o SubSeq(its, i + 1, Len(its))

\* C28: an item passed to collectItem disappears: in the end it is neither
\* in the scene nor in this.items.  An entry leaves this.items and the
\* scene only as the one collected entry whose animation ends, and never
\* comes back; an update keeps every entry, leaves the collected entries as
\* they are and visits every other entry.
C28_CollectedDisappears ==
    /\ \A id \in {"beer1", "beer2"} :
          (\E k \in DOMAIN collects : collects[k] = id)
            ~> (id \notin sceneItems /\ id \notin C28_ItemIds(items))
    /\ [][/\ (items' # items /\ Len(items') # Len(items) /\ items # <<>>) =>
                \E i \in DOMAIN items :
                    /\ items[i].removed
                    /\ \E k \in DOMAIN collects : collects[k] = items[i].id
                    /\ items' = C28_Without(items, i)
                    /\ sceneItems' = sceneItems \ {items[i].id}
          /\ \A id \in sceneItems \ sceneItems' :
                id \in C28_ItemIds(items) \ C28_ItemIds(items')
          /\ \A k \in DOMAIN collects :
                collects[k] \notin C28_ItemIds(items)
                    => collects[k] \notin C28_ItemIds(items') \cup sceneItems'
          /\ \A d \in Deltas, p \in PlayerSpots, f \in FloatOffsets :
                ItemsUpdate(d, p, f) =>
                    /\ Len(items') = Len(items)
                    /\ sceneItems' = sceneItems
                    /\ \A i \in DOMAIN items :
                          IF items[i].removed THEN items'[i] = items[i]
                          ELSE items'[i].y = items[i].base[2] + f
         ]_vars

\* beer2 was collected and is gone from the scene and from this.items,
\* while beer1 is still there, not collected, and was visited by the last
\* update.
C28_Witness ==
    /\ collects = <<"beer2">>
    /\ "beer2" \notin sceneItems
    /\ Len(items) = 1
    /\ items[1].id = "beer1"
    /\ ~items[1].removed
    /\ items[1].y # items[1].base[2]
    /\ "beer1" \in sceneItems


(***************************************************************************)
(* The overlays: MainMenuUI and LoadingUI                                  *)
(***************************************************************************)
UiNames == {"menu", "loading"}

\* Any caller showing and hiding the two overlays, and their hide timers
\* firing.
UiNext ==
    \/ \E name \in UiNames : UiShow(name)
    \/ \E name \in UiNames : UiHide(name)
    \/ \E name \in UiNames : UiTimer(name)

SpecUI == Init /\ [][UiNext]_vars

\* C29: an overlay whose last call was show() and whose hide timers have
\* all fired does not carry the 'hidden' class.
C29_ShownStaysVisible ==
    \A name \in UiNames :
        (ui[name].last = "show" /\ ui[name].timers = 0)
            => "hidden" \notin ui[name].classes

(***************************************************************************)
(* Walkability and the models that loaded                                  *)
(***************************************************************************)
\* Level descriptions with at most one override and one obstacle cell.
AssetLevels ==
    {[meta      |-> m,
      tilesets  |-> ts,
      defaults  |-> [ground |-> [tile |-> g, rot |-> 0, h |-> 0]],
      overrides |-> ov,
      layers    |-> <<[name |-> "obstacles", z |-> 0, cells |-> lc]>> \o up,
      objects   |-> <<>>] :
        m \in MetaChoices, ts \in TilesetChoices, g \in {S_floor, S_wall},
        ov \in {<<>>} \cup {<<c>> : c \in OverrideChoices},
        lc \in {<<>>} \cup {<<c>> : c \in LayerCellChoices},
        up \in UpperLayerChoices}

\* The level manager loading one of these levels, each model load
\* succeeding or failing.
AssetsNext ==
    \/ StartGame
    \/ \E ld \in AssetLevels : FetchSettle("ok", ld)
    \/ \E k \in pending, ok \in BOOLEAN, h \in ModelHeights : ModelSettle(k, ok, h)

SpecAssets == Init /\ [][AssetsNext]_vars

\* this.models and this.modelSizes had every model of the level loaded.
C30_AllLoaded(ld) ==
    [k \in PreloadKeys(ld.tilesets) |-> CHOOSE h \in ModelHeights : TRUE]

\* The objects of a scene whose model is a primitive or is among loaded.
C30_WithoutFailed(objs, loaded) ==
    SelectSeq(objs, LAMBDA t : \/ StartsWith(t.obj.key, S_primitive)
                               \/ t.obj.key \in loaded)

\* World coordinates left of the grid, in its first two columns or rows,
\* and beyond it.
C30_Probes == {-501, 0, 1000, 3000}

\* C30: preloadAssets resolves whichever models fail (the level is built
\* as soon as the last load has settled); the scene then holds what it
\* would hold with every model loaded, less the objects of the models that
\* failed; and from the moment the level description is there no step,
\* neither a model load that succeeds or fails nor buildLevel, changes
\* isWalkable at any probed (x, z).
C30_WalkableWhateverLoaded ==
    [][/\ lmPc' = "preloading" => pending' # {}
       /\ (lmPc' = "done" /\ levelData' # Null) =>
             /\ pending' = {}
             /\ tiles' = C30_WithoutFailed(
                             BuildLevel(levelData', C30_AllLoaded(levelData')),
                             DOMAIN models')
       /\ levelData # Null =>
             \A x \in C30_Probes, z \in C30_Probes :
                 IsWalkable(levelData, x, z)' = IsWalkable(levelData, x, z)
      ]_vars

\* A level was built although one of its models failed to load: a visual
\* is missing from the scene, some probed point is walkable and another
\* one is not.
C30_Witness ==
    /\ lmPc = "done"
    /\ levelData # Null
    /\ PreloadKeys(levelData.tilesets) \ DOMAIN models # {}
    /\ Len(tiles) < Len(BuildLevel(levelData, C30_AllLoaded(levelData)))
    /\ \E x \in C30_Probes, z \in C30_Probes : IsWalkable(levelData, x, z)
    /\ \E x \in C30_Probes, z \in C30_Probes : ~IsWalkable(levelData, x, z)

=============================================================================
